---- MODULE Spec2Model ----
(***************************************************************************)
(* Verification model of the RAG service: the workflow graph               *)
(* (agent/graph.py), its streaming driver (api/routes/chat.py), the tool   *)
(* capabilities (tools/*.py), the Redis publisher (infra/redis_pubsub.py)  *)
(* and the subscription endpoint (api/routes/stream.py).                   *)
(*                                                                         *)
(* The specifications share the variables:                                 *)
(*   Spec         one thread, a streaming turn after its earlier turns     *)
(*   SpecDriver   a turn with its token chunks                             *)
(*   SpecTool     one invocation of a tool capability on an enumerated     *)
(*                environment                                              *)
(*   SpecStream   publisher, durable log and one subscriber                *)
(*   SpecEndpoint one POST /stream exchange                                *)
(*   SpecIso      a subscriber of one thread, an event of another          *)
(*   SpecRace     concurrent turns of one thread                           *)
(*   SpecFanout   several subscribers of one thread                        *)
(*   SpecClient   the project search client                                *)
(*   SpecBind     the tools bound and run in a turn                        *)
(*   SpecHistory  history retrieval                                        *)
(*   SpecDelete   thread deletion                                          *)
(*   SpecJson     StreamMessage.to_json on one message                     *)
(*   SpecLive     live delivery from the log to a client that can go away  *)
(*   SpecBudget   a turn and the clock of its time budget                  *)
(*   SpecLifecycle the pool and checkpointer managers under the lifespan   *)
(***************************************************************************)
EXTENDS Integers, Sequences, FiniteSets, TLC

VARIABLES
    \* ---- Spec: the workflow turn ----
    project_search_enabled, \* settings.project_search_enabled
    handle_tool_errors,     \* ToolNode: does it turn a raised tool exception into a message
    ckpt,                   \* Checkpoint Store: persisted messages of the thread
    msgs,                   \* state["messages"] of the running turn
    ckptAtStart,            \* the checkpoint as it was when the turn started
    pc,                     \* position of _stream_workflow_to_redis
    turn,                   \* number of turns started on the thread
    modelCalls,             \* model calls made in the running turn
    nodesRun,               \* graph nodes completed in the running turn
    decision,               \* tool requests of the turn's decision message
    results,                \* tools node: outcome of each tool invocation (a local)
    finishOrder,            \* tools node: order the invocations finished in (a local)
    decideInput,            \* messages given to the first model call
    genInput,               \* input given to the second model call
    events,                 \* publisher calls made by the driver in the running turn
    caught,                 \* the exception the driver's try block caught, if any
    \* ---- SpecTool ----
    tool_in,                \* the tool and the environment it is invoked in
    tool_out,               \* what the invocation did
    \* ---- SpecStream ----
    redis_stream_enabled,   \* settings.redis_stream_enabled
    published,              \* events handed to publish_message, in call order
    channel,                \* events broadcast on the Pub/Sub channel
    stream,                 \* durable log workflow:execution:{thread_id}
    nextId,                 \* next message id the log assigns
    sub_pc,                 \* position of websocket_stream
    sub_last_id,            \* the subscriber's read position
    sub_mode,               \* how the subscriber connected
    delivered,              \* frames sent to the websocket
    sub_inbox,              \* Pub/Sub messages Redis has pushed to the subscription
    caught_up,              \* the last blocking read found nothing new
    sub_since,              \* number of publish_message calls made when the subscriber connected
    sub_offset,             \* the last_id the subscriber connected with
    logged,                 \* events ever appended to the durable log
    nextEv,                 \* next event to be handed to the publisher
    stream_ttl,             \* seconds the log's key has left to live (None: no expiry set)
    \* ---- SpecEndpoint ----
    ep_pc,                  \* position of one POST /stream exchange
    ep_body,                \* the JSON body the client sent
    ep_req,                 \* the ChatRequest built from it
    ep_response,            \* what the client is answered
    ep_tasks,               \* background turns scheduled by the handler
    ep_ran,                 \* background turns started
    ep_graph,               \* request.app.state.graph is set
    ep_redis_url,           \* settings.redis_url is set
    \* ---- SpecIso ----
    iso_sub,                \* the subscription: thread of the websocket and its delivery
    iso_pub,                \* the event handed to the publisher
    iso_sent,               \* events sent to the websocket
    \* ---- SpecRace ----
    race_ckpt,              \* Checkpoint Store: the latest checkpoint of the thread
    race_pc,                \* position of each background turn
    race_msgs,              \* state["messages"] of each background turn
    race_loaded,            \* the checkpoint each turn loaded
    race_writer,            \* the turn that wrote the latest checkpoint (0: none of them)
    \* ---- SpecFan ----
    fan_enabled,            \* settings.redis_stream_enabled
    fan_published,          \* events handed to the publisher, in call order
    fan_log,                \* durable log workflow:execution:{thread_id}
    fan_subs,               \* the websockets connected to /ws/{thread_id}
    \* ---- SpecClient ----
    client_token,           \* ProjectSearchClient.token, the cached token (None: not set)
    client_pc,              \* position of ProjectSearchClient.search
    client_requests,        \* HTTP requests of the running call, with what the API answered
    client_result,          \* what the call returned or raised
    client_calls,           \* calls of search made on the client
    \* ---- SpecBind ----
    bind_settings,          \* settings.project_search_enabled
    bind_config,            \* config["configurable"] of the run: enable_websearch
    bind_pc,                \* position of the turn
    bind_bound,             \* tools given to llm.bind_tools
    bind_requested,         \* tool requests of the decision message
    bind_executed,          \* tools the tools node ran
    \* ---- SpecHist ----
    hist_store,             \* Checkpoint Store: messages of the latest checkpoint of the thread, if it has one
    hist_response,          \* what GET /threads/{thread_id}/history answered
    \* ---- SpecDel ----
    del_db,                 \* rows of each checkpoint table, counted per thread_id
    del_response,           \* what the last DELETE /threads/{thread_id} did and answered
    \* ---- SpecJson ----
    json_msg,               \* the StreamMessage handed to to_json (<<>>: none)
    json_out,               \* what to_json gave for it (<<>>: not called yet)
    \* ---- SpecLive ----
    live_log,               \* durable log workflow:execution:{thread_id} the handler reads
    live_last_id,           \* last_id of _stream_new_messages
    live_pc,                \* position of _stream_new_messages
    live_client,            \* the websocket peer: "open" or "gone"
    live_sent,              \* message ids sent to the websocket, in order
    live_failed,            \* a send_text has raised because the client is gone
    live_offset,            \* the last_id _stream_new_messages was called with
    \* ---- SpecTmo ----
    tmo_pc,                 \* position of a turn whose clock is watched
    tmo_elapsed,            \* seconds since asyncio.wait_for was entered
    tmo_raised,             \* where the exception the driver caught was raised (None: none)
    tmo_events,             \* terminal events the driver published
    \* ---- SpecLc ----
    lc_pc,                  \* position of the lifespan of the application
    lc_pool,                \* DatabaseManager._pool: the number of a pool, 0 for None
    lc_checkpointer,        \* CheckpointerManager._checkpointer: <<>> for None, else <<the pool it was built on>>
    lc_pools,               \* every pool ever constructed: "unopened", "open" or "closed"
    lc_starts,              \* lifespans entered so far
    lc_result               \* what the last call of a handler gave (<<>>: none yet)

turnVars == <<project_search_enabled, handle_tool_errors, ckpt, msgs, ckptAtStart, pc,
              turn, modelCalls, nodesRun, decision, results, finishOrder, genInput,
              events, caught, decideInput>>
toolVars == <<tool_in, tool_out>>
streamVars == <<redis_stream_enabled, published, channel, stream, nextId, sub_pc,
                sub_last_id, sub_mode, delivered, sub_inbox, caught_up, sub_since,
                sub_offset, logged, nextEv, stream_ttl>>
endpointVars == <<ep_pc, ep_body, ep_req, ep_response, ep_tasks, ep_ran, ep_graph,
                  ep_redis_url>>
isoVars == <<iso_sub, iso_pub, iso_sent>>
raceVars == <<race_ckpt, race_pc, race_msgs, race_loaded, race_writer>>
fanVars == <<fan_enabled, fan_published, fan_log, fan_subs>>
clientVars == <<client_token, client_pc, client_requests, client_result, client_calls>>
bindVars == <<bind_settings, bind_config, bind_pc, bind_bound, bind_requested, bind_executed>>
histVars == <<hist_store, hist_response>>
delVars == <<del_db, del_response>>
jsonVars == <<json_msg, json_out>>
liveVars == <<live_log, live_last_id, live_pc, live_client, live_sent, live_failed,
             live_offset>>
tmoVars == <<tmo_pc, tmo_elapsed, tmo_raised, tmo_events>>
lcVars == <<lc_pc, lc_pool, lc_checkpointer, lc_pools, lc_starts, lc_result>>
vars == <<turnVars, toolVars, streamVars, endpointVars, isoVars, raceVars, fanVars, clientVars, bindVars, histVars, delVars, jsonVars, liveVars, tmoVars, lcVars>>

None == "none"

\* ------------------------------------------------------------------ bounds
MaxToolCalls == 2      \* tool requests in one decision message
MaxTurns == 1          \* turns started on the thread after its earlier conversation
MaxDocs == 2           \* documents a similarity search returns
MaxEvents == 4         \* events handed to the publisher
MaxTokens == 1         \* token events published for one model call
stream_max_length == 3 \* settings.stream_max_length, kept small
XReadCount == 10       \* count=10 of the blocking read
workflow_timeout_seconds == 300 \* settings.workflow_timeout_seconds, its default
stream_ttl_seconds == 3600 \* settings.stream_ttl_seconds, its default

Range(s) == {s[i] : i \in DOMAIN s}

SeqsUpTo(S, n) == UNION {[1..k -> S] : k \in 0..n}

IsPrefix(s, t) == Len(s) <= Len(t) /\ SubSeq(t, 1, Len(s)) = s

\* ================================================================== tools

\* Fields of the Settings dataclass.
SettingsFields ==
    {"chat_model", "dashscope_api_key", "dascope_base_url", "embeddings_model",
     "litellm_base_url", "postgres_connection_string", "default_collection",
     "chunk_size", "chunk_overlap", "retriever_top_k", "rerank_enabled",
     "rerank_model", "rerank_top_n", "redis_url", "redis_stream_enabled",
     "stream_ttl_seconds", "stream_max_length", "workflow_timeout_seconds",
     "langsmith_api_key", "langsmith_endpoint", "langsmith_project",
     "frontend_images_dir", "frontend_image_prefix", "project_search_api_url",
     "project_search_api_username", "project_search_api_password",
     "project_search_enabled", "project_search_db_url"}

\* What a tool invocation does: it raises, or returns a text and artifacts.
\* artifacts is "none" when the tool returns a bare string, else "empty" or "some".
Raised(what) == [raised |-> TRUE, text |-> what, artifacts |-> "none"]
Returned(text, artifacts) == [raised |-> FALSE, text |-> text, artifacts |-> artifacts]

ArtifactList(n) == IF n = 0 THEN "empty" ELSE "some"

\* "\n\n".join of one non-empty part per document: empty iff there is no document.
SerializeDocuments(ndocs) == IF ndocs = 0 THEN "" ELSE "Source: .. Content: .."

\* _rerank_documents: None when rerank is off or there is nothing to rerank,
\* otherwise the reranked list; an import or upstream failure is re-raised.
RerankDocuments(ndocs, env) ==
    IF ~env.rerank_enabled \/ ndocs = 0
    THEN [raised |-> FALSE, isNone |-> TRUE, docs |-> 0]
    ELSE CASE env.rerank = "import_error" -> [raised |-> TRUE, isNone |-> TRUE, docs |-> 0]
           [] env.rerank = "error" -> [raised |-> TRUE, isNone |-> TRUE, docs |-> 0]
           [] env.rerank = "empty" -> [raised |-> FALSE, isNone |-> FALSE, docs |-> 0]
           [] OTHER -> [raised |-> FALSE, isNone |-> FALSE, docs |-> ndocs]

\* retrieve_context: similarity search, optional rerank, serialize. Nothing is caught.
retrieve_context(env) ==
    IF env.upstream \in {"timeout", "http_error", "error"}
    THEN Raised("similarity_search failed")
    ELSE LET retrieved == IF env.upstream = "empty" THEN 0 ELSE env.ndocs
             rr == RerankDocuments(retrieved, env)
         IN  IF env.rerank_enabled /\ retrieved # 0
             THEN IF rr.raised
                  THEN Raised("Rerank failed")
                  ELSE LET docs == IF ~rr.isNone /\ rr.docs # 0 THEN rr.docs
                                   ELSE retrieved
                       IN  Returned(SerializeDocuments(docs), ArtifactList(docs))
             ELSE Returned(SerializeDocuments(retrieved), ArtifactList(retrieved))

\* _search_projects_impl / search_projects: every failure becomes a text; the tool
\* is declared without response_format, so there is no artifact.
search_projects(env) ==
    IF ~env.project_search_enabled THEN Returned("project search not enabled", "none")
    ELSE IF ~env.api_url THEN Returned("project search not configured", "none")
    ELSE IF ~env.credentials THEN Returned("project search credentials missing", "none")
    ELSE CASE env.upstream = "timeout" -> Returned("project search timed out", "none")
           [] env.upstream = "http_error" -> Returned("project search unavailable", "none")
           [] env.upstream = "error" -> Returned("project search failed", "none")
           [] env.upstream = "empty" -> Returned("no project found for query", "none")
           [] OTHER -> Returned("found N projects: ..", "none")

\* _get_tavily_search_tool reads settings.tavily_api_key.
GetTavilySearchTool(env) ==
    IF "tavily_api_key" \notin SettingsFields THEN "AttributeError"
    ELSE IF ~env.tavily_api_key THEN None
    ELSE "TavilySearchResults"

\* web_search: the lookup of the Tavily tool is outside the try block.
web_search(env) ==
    LET tavily_tool == GetTavilySearchTool(env)
    IN  IF tavily_tool = "AttributeError" THEN Raised("AttributeError: tavily_api_key")
        ELSE IF tavily_tool = None THEN Returned("Web search is not configured", "empty")
        ELSE CASE env.upstream \in {"timeout", "http_error", "error"} ->
                      Returned("Web search failed: ..", "empty")
               [] env.upstream = "empty" -> Returned("", "empty")
               [] OTHER -> Returned("[1] title URL Content", "some")

ToolNames == {"retrieve_context", "search_projects", "web_search"}

InvokeTool(name, env) ==
    CASE name = "retrieve_context" -> retrieve_context(env)
      [] name = "search_projects" -> search_projects(env)
      [] OTHER -> web_search(env)

Upstreams == {"ok", "empty", "timeout", "http_error", "error"}

\* The environments a tool is invoked in: configuration and upstream behaviour.
ToolEnvs ==
    [upstream : Upstreams, ndocs : 1..MaxDocs, rerank_enabled : BOOLEAN,
     rerank : {"ok", "empty", "import_error", "error"},
     project_search_enabled : BOOLEAN, api_url : BOOLEAN, credentials : BOOLEAN,
     tavily_api_key : BOOLEAN]

\* ================================================================== workflow graph

UserMessage(t) ==
    [role |-> "user", turn |-> t, calls |-> <<>>, tool |-> "", idx |-> 0, text |-> "question"]

AIMessage(t, calls) ==
    [role |-> "ai", turn |-> t, calls |-> calls, tool |-> "", idx |-> 0, text |-> "answer"]

ToolMessage(t, name, i, text) ==
    [role |-> "tool", turn |-> t, calls |-> <<>>, tool |-> name, idx |-> i, text |-> text]

\* The tools list built from the settings, in query_or_respond and at module level.
BoundTools(enabled) ==
    IF enabled THEN {"retrieve_context", "search_projects"} ELSE {"retrieve_context"}

\* _extract_user_question: content of the most recent HumanMessage, "" when none.
ExtractUserQuestion(messages) ==
    LET users == {i \in DOMAIN messages : messages[i].role = "user"}
    IN  IF users = {} THEN ""
        ELSE messages[CHOOSE i \in users : \A j \in users : j <= i].text

\* _extract_retrieved_context: the most recent ToolMessage, nothing when none.
\* The messages whose content reaches the prompt are returned, so that the
\* prompt's text can be traced to the tool results it was built from.
ExtractRetrievedContext(messages) ==
    LET tools == {i \in DOMAIN messages : messages[i].role = "tool"}
    IN  IF tools = {} THEN <<>>
        ELSE <<messages[CHOOSE i \in tools : \A j \in tools : j <= i]>>

\* GENERATE_ANSWER_PROMPT.format(question=.., documents=..) with the two defaults.
GeneratePrompt(messages) ==
    LET question == ExtractUserQuestion(messages)
        documents == ExtractRetrievedContext(messages)
    IN  [question |-> IF question = "" THEN "No question provided." ELSE question,
         documents |-> documents,
         text |-> IF documents = <<>> \/ documents[Len(documents)].text = ""
                  THEN "No supporting documents were retrieved."
                  ELSE documents[Len(documents)].text]

\* tools_condition: route on the tool calls of the last AI message.
tools_condition_always(message) == "tools"

tools_condition(message) == IF Len(message.calls) > 0 THEN "tools" ELSE "END"

\* add_edge("tools", "generate") and add_edge("generate", END).
EdgeFromLoop(node) == IF node = "tools" THEN "generate" ELSE "query_or_respond"

EdgeFrom(node) == IF node = "tools" THEN "generate" ELSE "END"

\* Where the driver stands when the graph goes to a node.
PcOf(target) ==
    CASE target = "END" -> "finish"
      [] target = "query_or_respond" -> "decide"
      [] OTHER -> target

\* generate invokes the model without bind_tools.
GenerateTools == {}

\* The configuration and upstream behaviour a tool meets inside a turn.
TurnUpstreams == {"ok", "timeout"}

TurnEnv(upstream, enabled) ==
    [upstream |-> upstream, ndocs |-> 1, rerank_enabled |-> FALSE, rerank |-> "ok",
     project_search_enabled |-> enabled, api_url |-> TRUE, credentials |-> TRUE,
     tavily_api_key |-> FALSE]

Pending == [raised |-> FALSE, text |-> "pending", artifacts |-> "none"]

\* ToolNode: one ToolMessage per tool call, in the order of the calls; a raised
\* exception it handles becomes an error text.
ToolNodeOutputsInFinishOrder(t, calls, res, order) ==
    [k \in 1..Len(calls) |->
        ToolMessage(t, calls[order[k]], order[k],
                    IF res[order[k]].raised THEN "Error: .. Please fix your mistakes."
                    ELSE res[order[k]].text)]

ToolNodeOutputs(t, calls, res, order) ==
    [i \in 1..Len(calls) |->
        ToolMessage(t, calls[i], i,
                    IF res[i].raised THEN "Error: .. Please fix your mistakes."
                    ELSE res[i].text)]

\* What the checkpointer persists after a step: the whole channel value.
SaveCheckpointTurnOnly(state, t) == SelectSeq(state, LAMBDA m : m.turn = t)

SaveCheckpoint(state, t) == state

\* ================================================================== streaming driver

Event(node, type, error_type) ==
    [node |-> node, type |-> type, error_type |-> error_type, error |-> "",
     timeout_seconds |-> <<>>]

\* publish_workflow_error: data = {"error": error, **data}; timeout_seconds is <<>>
\* when the data carries none.
ErrorEvent(error_type, error, timeout_seconds) ==
    [node |-> "workflow", type |-> "error", error_type |-> error_type, error |-> error,
     timeout_seconds |-> timeout_seconds]

\* An exception leaving asyncio.wait_for: its class and str(exc).
Exc(kind, message) == [kind |-> kind, message |-> message]

TimeoutText == "Workflow execution exceeded {timeout_seconds}s timeout"

\* The except clauses of _stream_workflow_to_redis: the events each one publishes.
OnExceptionAlwaysError(e) == <<ErrorEvent("execution_error", e.message, <<>>)>>

OnExceptionTimeoutUnclassified(e) ==
    CASE e.kind = "CancelledError" -> <<>>
      [] OTHER -> <<ErrorEvent("execution_error", e.message, <<>>)>>

OnExceptionGenericText(e) ==
    CASE e.kind = "CancelledError" -> <<>>
      [] e.kind = "TimeoutError" ->
             <<ErrorEvent("timeout", TimeoutText, <<workflow_timeout_seconds>>)>>
      [] OTHER -> <<ErrorEvent("execution_error", "Internal server error", <<>>)>>

OnException(e) ==
    CASE e.kind = "CancelledError" -> <<>>
      [] e.kind = "TimeoutError" ->
             <<ErrorEvent("timeout", TimeoutText, <<workflow_timeout_seconds>>)>>
      [] OTHER -> <<ErrorEvent("execution_error", e.message, <<>>)>>

\* _process_stream, one (stream_mode, chunk) of graph.astream: the events published.
\* Token chunks count for the two model nodes and only when the token is not empty;
\* an update publishes the node's output event and nothing before it.
ProcessChunkLegacy(stream_mode, node_name, token_content) ==
    CASE stream_mode = "messages" ->
             IF node_name \in {"query_or_respond", "generate"} /\ token_content # ""
             THEN <<Event(node_name, "token", "")>>
             ELSE <<>>
      [] stream_mode = "updates" ->
             <<Event(node_name, "start", ""), Event(node_name, "output", "")>>
      [] OTHER -> <<Event("custom", "custom", "")>>

ProcessChunk(stream_mode, node_name, token_content) ==
    CASE stream_mode = "messages" ->
             IF node_name \in {"query_or_respond", "generate"} /\ token_content # ""
             THEN <<Event(node_name, "token", "")>>
             ELSE <<>>
      [] stream_mode = "updates" -> <<Event(node_name, "output", "")>>
      [] OTHER -> <<Event("custom", "custom", "")>>

\* The node that runs while the driver stands at pc.
NodeAt(at) == IF at = "decide" THEN "query_or_respond" ELSE at

TokensOf(node) ==
    Cardinality({k \in DOMAIN events : events[k].type = "token" /\ events[k].node = node})

Running == {"input", "decide", "tools", "generate", "finish"}
Over == {"done", "failed", "failed_cancelled", "cancelled", "cancelled_late"}
Stopped == {"failed", "failed_cancelled", "cancelled", "cancelled_late"}

turnFrame ==
    <<toolVars, streamVars, endpointVars, isoVars, raceVars, fanVars, clientVars,
      bindVars, histVars, delVars, jsonVars, liveVars, tmoVars, lcVars>>

\* What the Checkpoint Store can hold for a thread when a request arrives: nothing
\* (a new thread), an earlier turn that completed through the tools node, or an
\* earlier turn that stopped after its decision step.  Earlier messages carry turn 0.
PriorCheckpoints ==
    {<<>>,
     <<UserMessage(0), AIMessage(0, <<"retrieve_context">>),
       ToolMessage(0, "retrieve_context", 1, SerializeDocuments(1)), AIMessage(0, <<>>)>>,
     <<UserMessage(0), AIMessage(0, <<"retrieve_context">>)>>}

InitTurnVars ==
    /\ project_search_enabled \in BOOLEAN
    /\ handle_tool_errors \in BOOLEAN
    /\ ckpt \in PriorCheckpoints
    /\ msgs = <<>>
    /\ ckptAtStart = <<>>
    /\ pc = "idle"
    /\ turn = 0
    /\ modelCalls = 0
    /\ nodesRun = <<>>
    /\ decision = <<>>
    /\ results = <<>>
    /\ finishOrder = <<>>
    /\ genInput = <<>>
    /\ events = <<>>
    /\ caught = <<>>
    /\ decideInput = <<>>

\* The background task _stream_workflow_to_redis starts for a request.
StartTurn ==
    /\ pc \in {"idle"} \cup Over
    /\ turn < MaxTurns
    /\ turn' = turn + 1
    /\ pc' = "input"
    /\ ckptAtStart' = ckpt
    /\ msgs' = <<>>
    /\ modelCalls' = 0
    /\ nodesRun' = <<>>
    /\ decision' = <<>>
    /\ results' = <<>>
    /\ finishOrder' = <<>>
    /\ genInput' = <<>>
    /\ events' = <<>>
    /\ caught' = <<>>
    /\ decideInput' = <<>>
    /\ UNCHANGED <<project_search_enabled, handle_tool_errors, ckpt>>
    /\ UNCHANGED turnFrame

\* graph.astream: load the thread's checkpoint, apply the input, checkpoint it.
LoadInput ==
    /\ pc = "input"
    /\ msgs' = Append(ckpt, UserMessage(turn))
    /\ ckpt' = SaveCheckpoint(msgs', turn)
    /\ pc' = "decide"
    /\ UNCHANGED <<project_search_enabled, handle_tool_errors, ckptAtStart, turn,
                   modelCalls, nodesRun, decision, results, finishOrder, genInput, events>>
    /\ UNCHANGED caught
    /\ UNCHANGED decideInput
    /\ UNCHANGED turnFrame

\* Node query_or_respond returns the model's message; the driver publishes the
\* node's output event; tools_condition routes.
QueryOrRespond ==
    /\ pc = "decide"
    /\ \E calls \in SeqsUpTo(BoundTools(project_search_enabled), MaxToolCalls) :
         LET response == AIMessage(turn, calls)
         IN  /\ msgs' = Append(msgs, response)
             /\ decision' = calls
             /\ results' = [i \in 1..Len(calls) |-> Pending]
             /\ pc' = IF tools_condition(response) = "tools" THEN "tools" ELSE "finish"
    /\ decideInput' = <<msgs>>
    /\ ckpt' = SaveCheckpoint(msgs', turn)
    /\ modelCalls' = modelCalls + 1
    /\ nodesRun' = Append(nodesRun, "query_or_respond")
    /\ events' = events \o ProcessChunk("updates", "query_or_respond", "")
    /\ UNCHANGED <<project_search_enabled, handle_tool_errors, ckptAtStart, turn,
                   finishOrder, genInput>>
    /\ UNCHANGED caught
    /\ UNCHANGED turnFrame

\* One tool invocation of the tools node finishes; invocations run concurrently.
ToolFinish(i) ==
    /\ pc = "tools"
    /\ i \in 1..Len(decision)
    /\ i \notin Range(finishOrder)
    /\ \E upstream \in TurnUpstreams :
         results' = [results EXCEPT ![i] =
                        InvokeTool(decision[i], TurnEnv(upstream, project_search_enabled))]
    /\ finishOrder' = Append(finishOrder, i)
    /\ UNCHANGED <<project_search_enabled, handle_tool_errors, ckpt, msgs, ckptAtStart, pc,
                   turn, modelCalls, nodesRun, decision, genInput, events>>
    /\ UNCHANGED caught
    /\ UNCHANGED decideInput
    /\ UNCHANGED turnFrame

ToolRaised == \E i \in DOMAIN results : results[i].raised

\* The invocation whose exception leaves the tools node: the first that raised.
FirstRaised ==
    finishOrder[CHOOSE k \in DOMAIN finishOrder :
                    /\ results[finishOrder[k]].raised
                    /\ \A j \in 1..(k - 1) : ~results[finishOrder[j]].raised]

\* The tools node completes: its messages are appended and checkpointed.
ToolsJoin ==
    /\ pc = "tools"
    /\ Range(finishOrder) = 1..Len(decision)
    /\ ToolRaised => handle_tool_errors
    /\ msgs' = msgs \o ToolNodeOutputs(turn, decision, results, finishOrder)
    /\ ckpt' = SaveCheckpoint(msgs', turn)
    /\ nodesRun' = Append(nodesRun, "tools")
    /\ events' = events \o ProcessChunk("updates", "tools", "")
    /\ pc' = PcOf(EdgeFrom("tools"))
    /\ UNCHANGED <<project_search_enabled, handle_tool_errors, ckptAtStart, turn,
                   modelCalls, decision, results, finishOrder, genInput>>
    /\ UNCHANGED caught
    /\ UNCHANGED decideInput
    /\ UNCHANGED turnFrame

\* A tool raised and ToolNode re-raises: the exception leaves graph.astream and the
\* driver's except clause issues the error event.
ToolsRaise ==
    /\ pc = "tools"
    /\ ToolRaised
    /\ ~handle_tool_errors
    /\ caught' = <<Exc("Exception", results[FirstRaised].text)>>
    /\ events' = events \o OnException(caught'[1])
    /\ pc' = "pub_error"
    /\ UNCHANGED <<project_search_enabled, handle_tool_errors, ckpt, msgs, ckptAtStart,
                   turn, modelCalls, nodesRun, decision, results, finishOrder, genInput>>
    /\ UNCHANGED decideInput
    /\ UNCHANGED turnFrame

\* Node generate: second model call, no tools bound.
Generate ==
    /\ pc = "generate"
    /\ genInput' = <<GeneratePrompt(msgs)>>
    /\ \E calls \in SeqsUpTo(GenerateTools, MaxToolCalls) :
         msgs' = Append(msgs, AIMessage(turn, calls))
    /\ ckpt' = SaveCheckpoint(msgs', turn)
    /\ modelCalls' = modelCalls + 1
    /\ nodesRun' = Append(nodesRun, "generate")
    /\ events' = events \o ProcessChunk("updates", "generate", "")
    /\ pc' = PcOf(EdgeFrom("generate"))
    /\ results' = <<>>
    /\ finishOrder' = <<>>
    /\ UNCHANGED <<project_search_enabled, handle_tool_errors, ckptAtStart, turn, decision>>
    /\ UNCHANGED caught
    /\ UNCHANGED decideInput
    /\ UNCHANGED turnFrame

\* A model call raises (query_or_respond or generate).
ModelRaises ==
    /\ pc \in {"decide", "generate"}
    /\ modelCalls' = modelCalls + 1
    /\ decideInput' = IF pc = "decide" THEN <<msgs>> ELSE decideInput
    /\ genInput' = IF pc = "generate" THEN <<GeneratePrompt(msgs)>> ELSE genInput
    /\ caught' = <<Exc("Exception", "model call failed")>>
    /\ events' = events \o OnException(caught'[1])
    /\ pc' = "pub_error"
    /\ UNCHANGED <<project_search_enabled, handle_tool_errors, ckpt, msgs, ckptAtStart,
                   turn, nodesRun, decision>>
    /\ results' = <<>>
    /\ finishOrder' = <<>>
    /\ UNCHANGED turnFrame

\* asyncio.wait_for gives up: the stream is cancelled and TimeoutError is handled.
Timeout ==
    /\ pc \in Running
    /\ caught' = <<Exc("TimeoutError", "")>>
    /\ events' = events \o OnException(caught'[1])
    /\ pc' = "pub_error"
    /\ UNCHANGED <<project_search_enabled, handle_tool_errors, ckpt, msgs, ckptAtStart,
                   turn, modelCalls, nodesRun, decision, genInput>>
    /\ results' = <<>>
    /\ finishOrder' = <<>>
    /\ UNCHANGED decideInput
    /\ UNCHANGED turnFrame

\* The stream is exhausted: publish_workflow_complete is called.
PublishComplete ==
    /\ pc = "finish"
    /\ events' = Append(events, Event("workflow", "complete", ""))
    /\ pc' = "pub_complete"
    /\ UNCHANGED <<project_search_enabled, handle_tool_errors, ckpt, msgs, ckptAtStart,
                   turn, modelCalls, nodesRun, decision, results, finishOrder, genInput>>
    /\ UNCHANGED caught
    /\ UNCHANGED decideInput
    /\ UNCHANGED turnFrame

\* The terminal publish returns and the task ends.
PublishReturn ==
    /\ pc \in {"pub_complete", "pub_error"}
    /\ pc' = IF pc = "pub_complete" THEN "done" ELSE "failed"
    /\ UNCHANGED <<project_search_enabled, handle_tool_errors, ckpt, msgs, ckptAtStart,
                   turn, modelCalls, nodesRun, decision, results, finishOrder, genInput,
                   events>>
    /\ UNCHANGED caught
    /\ UNCHANGED decideInput
    /\ UNCHANGED turnFrame

\* The task is cancelled while the workflow runs: CancelledError is handled.
Cancel ==
    /\ pc \in Running
    /\ caught' = <<Exc("CancelledError", "")>>
    /\ events' = events \o OnException(caught'[1])
    /\ pc' = "cancelled"
    /\ UNCHANGED <<project_search_enabled, handle_tool_errors, ckpt, msgs, ckptAtStart,
                   turn, modelCalls, nodesRun, decision, genInput>>
    /\ results' = <<>>
    /\ finishOrder' = <<>>
    /\ UNCHANGED decideInput
    /\ UNCHANGED turnFrame

\* The task is cancelled while it awaits publish_workflow_complete, which is inside
\* the try block: CancelledError is handled like a cancellation of the workflow.
CancelDuringComplete ==
    /\ pc = "pub_complete"
    /\ caught' = <<Exc("CancelledError", "")>>
    /\ events' = events \o OnException(caught'[1])
    /\ pc' = "cancelled_late"
    /\ UNCHANGED <<project_search_enabled, handle_tool_errors, ckpt, msgs, ckptAtStart,
                   turn, modelCalls, nodesRun, decision, results, finishOrder, genInput>>
    /\ UNCHANGED decideInput
    /\ UNCHANGED turnFrame

\* The task is cancelled while an except clause awaits publish_workflow_error: the
\* CancelledError leaves the function, nothing more is published.
CancelDuringError ==
    /\ pc = "pub_error"
    /\ pc' = "failed_cancelled"
    /\ UNCHANGED <<project_search_enabled, handle_tool_errors, ckpt, msgs, ckptAtStart,
                   turn, modelCalls, nodesRun, decision, results, finishOrder, genInput,
                   events>>
    /\ UNCHANGED caught
    /\ UNCHANGED decideInput
    /\ UNCHANGED turnFrame

\* graph.astream yields a "messages" chunk of the node that is running.
StreamMessageChunk ==
    /\ pc \in {"decide", "tools", "generate"}
    /\ TokensOf(NodeAt(pc)) < MaxTokens
    /\ \E token_content \in {"", "tok"} :
         events' = events \o ProcessChunk("messages", NodeAt(pc), token_content)
    /\ UNCHANGED <<project_search_enabled, handle_tool_errors, ckpt, msgs, ckptAtStart, pc,
                   turn, modelCalls, nodesRun, decision, results, finishOrder, genInput,
                   caught, decideInput>>
    /\ UNCHANGED turnFrame

InitTurnIdle ==
    /\ project_search_enabled = FALSE
    /\ handle_tool_errors = FALSE
    /\ ckpt = <<>>
    /\ msgs = <<>>
    /\ ckptAtStart = <<>>
    /\ pc = "idle"
    /\ turn = 0
    /\ modelCalls = 0
    /\ nodesRun = <<>>
    /\ decision = <<>>
    /\ results = <<>>
    /\ finishOrder = <<>>
    /\ genInput = <<>>
    /\ events = <<>>
    /\ caught = <<>>
    /\ decideInput = <<>>

InitToolIdle == tool_in = <<>> /\ tool_out = <<>>

InitStreamIdle ==
    /\ redis_stream_enabled = TRUE
    /\ published = <<>>
    /\ channel = <<>>
    /\ stream = <<>>
    /\ nextId = 1
    /\ sub_pc = "closed"
    /\ sub_last_id = 0
    /\ sub_mode = None
    /\ delivered = <<>>
    /\ sub_inbox = <<>>
    /\ caught_up = FALSE
    /\ sub_since = 0
    /\ sub_offset = 0
    /\ logged = {}
    /\ nextEv = 1
    /\ stream_ttl = None

InitEndpointIdle ==
    /\ ep_pc = "idle"
    /\ ep_body = <<>>
    /\ ep_req = <<>>
    /\ ep_response = <<>>
    /\ ep_tasks = 0
    /\ ep_ran = 0
    /\ ep_graph = TRUE
    /\ ep_redis_url = TRUE

InitIsoIdle ==
    /\ iso_sub = <<>>
    /\ iso_pub = <<>>
    /\ iso_sent = <<>>

InitRaceIdle ==
    /\ race_ckpt = <<>>
    /\ race_pc = <<>>
    /\ race_msgs = <<>>
    /\ race_loaded = <<>>
    /\ race_writer = 0

InitFanIdle ==
    /\ fan_enabled = FALSE
    /\ fan_published = <<>>
    /\ fan_log = <<>>
    /\ fan_subs = <<>>

InitClientIdle ==
    /\ client_token = None
    /\ client_pc = "idle"
    /\ client_requests = <<>>
    /\ client_result = <<>>
    /\ client_calls = 0

InitBindIdle ==
    /\ bind_settings = FALSE
    /\ bind_config = <<>>
    /\ bind_pc = "idle"
    /\ bind_bound = {}
    /\ bind_requested = <<>>
    /\ bind_executed = {}

InitHistIdle ==
    /\ hist_store = <<>>
    /\ hist_response = <<>>

InitDelIdle ==
    /\ del_db = <<>>
    /\ del_response = <<>>

InitJsonIdle ==
    /\ json_msg = <<>>
    /\ json_out = <<>>

InitLiveIdle ==
    /\ live_log = <<>>
    /\ live_last_id = 0
    /\ live_pc = "returned"
    /\ live_client = "gone"
    /\ live_sent = <<>>
    /\ live_failed = FALSE
    /\ live_offset = 0

InitTmoIdle ==
    /\ tmo_pc = "idle"
    /\ tmo_elapsed = 0
    /\ tmo_raised = None
    /\ tmo_events = <<>>

InitLcIdle ==
    /\ lc_pc = "stopped"
    /\ lc_pool = 0
    /\ lc_checkpointer = <<>>
    /\ lc_pools = <<>>
    /\ lc_starts = 0
    /\ lc_result = <<>>

Init == InitTurnVars /\ InitToolIdle /\ InitStreamIdle /\ InitEndpointIdle /\ InitIsoIdle /\ InitRaceIdle /\ InitFanIdle /\ InitClientIdle /\ InitBindIdle /\ InitHistIdle /\ InitDelIdle /\ InitJsonIdle /\ InitLiveIdle /\ InitTmoIdle /\ InitLcIdle

Next ==
    \/ StartTurn
    \/ LoadInput
    \/ QueryOrRespond
    \/ \E i \in 1..MaxToolCalls : ToolFinish(i)
    \/ ToolsJoin
    \/ ToolsRaise
    \/ Generate
    \/ ModelRaises
    \/ Timeout
    \/ PublishComplete
    \/ PublishReturn
    \/ Cancel
    \/ CancelDuringComplete
    \/ CancelDuringError

Spec == Init /\ [][Next]_vars

\* The steps of a running turn that happen without anything outside asking for them:
\* awaited calls return or raise, and asyncio.wait_for fires when the budget is spent.
\* (A cancellation comes from outside and may never happen.)
TurnProgress ==
    \/ LoadInput
    \/ QueryOrRespond
    \/ \E i \in 1..MaxToolCalls : ToolFinish(i)
    \/ ToolsJoin
    \/ ToolsRaise
    \/ Generate
    \/ ModelRaises
    \/ Timeout
    \/ PublishComplete
    \/ PublishReturn

\* The driver with the token chunks of the model calls, on a new thread with the
\* default tool list.
InitDriver == Init /\ ~project_search_enabled /\ ckpt = <<>>

NextDriver == Next \/ StreamMessageChunk

SpecDriver == InitDriver /\ [][NextDriver]_vars

\* ================================================================== one tool invocation

toolFrame ==
    <<turnVars, streamVars, endpointVars, isoVars, raceVars, fanVars, clientVars,
      bindVars, histVars, delVars, jsonVars, liveVars, tmoVars, lcVars>>

\* The tool's function is applied to the environment drawn at the start.
Invoke ==
    /\ tool_out = <<>>
    /\ tool_out' = <<InvokeTool(tool_in[1].name, tool_in[1].env)>>
    /\ UNCHANGED tool_in
    /\ UNCHANGED toolFrame

InitTool ==
    /\ InitTurnIdle
    /\ InitLcIdle
    /\ InitTmoIdle
    /\ InitLiveIdle
    /\ InitJsonIdle
    /\ InitDelIdle
    /\ InitHistIdle
    /\ InitBindIdle
    /\ InitClientIdle
    /\ InitFanIdle
    /\ InitRaceIdle
    /\ InitIsoIdle
    /\ InitStreamIdle
    /\ InitEndpointIdle
    /\ tool_in \in {<<[name |-> n, env |-> e]>> : n \in ToolNames, e \in ToolEnvs}
    /\ tool_out = <<>>

NextTool == Invoke

SpecTool == InitTool /\ [][NextTool]_vars

\* ================================================================== publisher, log, subscriber

streamFrame ==
    <<turnVars, toolVars, endpointVars, isoVars, raceVars, fanVars, clientVars,
      bindVars, histVars, delVars, jsonVars, liveVars, tmoVars, lcVars>>

\* XTRIM with maxlen: the oldest entries go first.
Trim(log, maxlen) ==
    IF Len(log) <= maxlen THEN log ELSE SubSeq(log, Len(log) - maxlen + 1, Len(log))

\* XRANGE over the whole key: every retained entry, oldest first.
XRange(log) == log

\* XREAD from last_id with a count: the first entries whose id is greater.
XReadInclusive(log, last_id, count) ==
    LET after == SelectSeq(log, LAMBDA m : m.id >= last_id)
    IN  IF Len(after) <= count THEN after ELSE SubSeq(after, 1, count)

XRead(log, last_id, count) ==
    LET after == SelectSeq(log, LAMBDA m : m.id > last_id)
    IN  IF Len(after) <= count THEN after ELSE SubSeq(after, 1, count)

Frame(m, is_history) == [message_id |-> m.id, ev |-> m.ev, is_history |-> is_history]

\* What can go wrong inside one publish_message call.
Faults == {"none", "redis_error", "serialization_error"}

\* StreamMessage.to_json: json.dumps with a default; a failure is caught and a
\* fallback document is returned.
ToJson(fault) == IF fault = "serialization_error" THEN "fallback" ELSE "json"

\* publish_message: to_json and PUBLISH inside try; except Exception logs.
PublishOutcomeUncaught(fault) ==
    [raised |-> fault = "redis_error", sent |-> fault # "redis_error",
     payload |-> ToJson(fault), logged_error |-> FALSE]

PublishOutcome(fault) ==
    [raised |-> FALSE, sent |-> fault # "redis_error", payload |-> ToJson(fault),
     logged_error |-> fault = "redis_error"]

\* publish_node_output, publish_workflow_complete and publish_workflow_error build a
\* StreamMessage and await publish_message.
PublisherMethods ==
    {"publish_message", "publish_node_output", "publish_workflow_complete",
     "publish_workflow_error"}

PublishVia(method, fault) == PublishOutcome(fault)

\* The Redis commands one publish_message call issues, given the setting.
PublishCommandsWithLog(enabled) == {"PUBLISH", "XADD", "XTRIM", "EXPIRE"}

PublishCommands(enabled) == {"PUBLISH"}

\* RedisPublisher.publish_message: serialize and PUBLISH on the channel; a failure is
\* logged.  A subscriber in Pub/Sub mode is handed what Redis accepts.
PublishMessage ==
    /\ nextEv <= MaxEvents
    /\ \E fault \in Faults :
         LET out == PublishOutcome(fault)
             redis_ok == out.sent
             commands == PublishCommands(redis_stream_enabled)
         IN  /\ published' = Append(published, [ev |-> nextEv, redis_ok |-> redis_ok,
                                                payload |-> out.payload,
                                                raised |-> out.raised,
                                                commands |-> commands])
             /\ channel' = IF redis_ok /\ "PUBLISH" \in commands
                           THEN Append(channel, nextEv) ELSE channel
             /\ sub_inbox' = IF redis_ok /\ "PUBLISH" \in commands /\ sub_pc = "pubsub"
                             THEN Append(sub_inbox, nextEv)
                             ELSE sub_inbox
             /\ IF redis_ok /\ "XADD" \in commands
                THEN /\ stream' = IF "XTRIM" \in commands
                                  THEN Trim(Append(stream, [id |-> nextId, ev |-> nextEv]),
                                            stream_max_length)
                                  ELSE Append(stream, [id |-> nextId, ev |-> nextEv])
                     /\ nextId' = nextId + 1
                     /\ logged' = logged \cup {nextEv}
                ELSE UNCHANGED <<stream, nextId, logged>>
             /\ stream_ttl' = IF redis_ok /\ "EXPIRE" \in commands
                              THEN stream_ttl_seconds ELSE stream_ttl
    /\ nextEv' = nextEv + 1
    /\ caught_up' = FALSE
    /\ UNCHANGED <<redis_stream_enabled, sub_pc, sub_last_id, sub_mode, delivered,
                   sub_since, sub_offset>>
    /\ UNCHANGED streamFrame

\* RedisPublisher._publish_to_stream, called on its own: XADD, XTRIM to
\* stream_max_length, EXPIRE; a failure is logged and None is returned.
PublishToStream ==
    /\ redis_stream_enabled
    /\ nextEv <= MaxEvents
    /\ \E redis_ok \in BOOLEAN :
         IF redis_ok
         THEN /\ stream' = Trim(Append(stream, [id |-> nextId, ev |-> nextEv]),
                                stream_max_length)
              /\ nextId' = nextId + 1
              /\ logged' = logged \cup {nextEv}
              /\ stream_ttl' = stream_ttl_seconds
         ELSE UNCHANGED <<stream, nextId, logged, stream_ttl>>
    /\ nextEv' = nextEv + 1
    /\ caught_up' = FALSE
    /\ UNCHANGED <<redis_stream_enabled, published, channel, sub_pc, sub_last_id, sub_mode,
                   delivered, sub_since, sub_offset>>
    /\ UNCHANGED sub_inbox
    /\ UNCHANGED streamFrame

\* websocket_stream: which delivery the settings and the last_id query parameter
\* select (<<>> when the parameter is absent or empty).
DeliveryModeAlwaysStream(enabled, last_id) == IF last_id # <<>> THEN "resume" ELSE "replay"

DeliveryMode(enabled, last_id) ==
    IF enabled THEN IF last_id # <<>> THEN "resume" ELSE "replay"
    ELSE "pubsub"

\* psubscribe: what a new subscription has waiting. Pub/Sub keeps no history.
Psubscribe(ch) == <<>>

\* websocket_stream: accept, then start the selected delivery.
Connect(last_id) ==
    /\ sub_pc = "closed"
    /\ delivered' = <<>>
    /\ caught_up' = FALSE
    /\ sub_since' = Len(published)
    /\ sub_mode' = DeliveryMode(redis_stream_enabled, last_id)
    /\ sub_last_id' = IF sub_mode' = "resume" THEN last_id[1] ELSE 0
    /\ sub_offset' = sub_last_id'
    /\ sub_pc' = CASE sub_mode' = "resume" -> "live"
                    [] sub_mode' = "replay" -> "history"
                    [] OTHER -> "pubsub"
    /\ sub_inbox' = IF sub_mode' = "pubsub" THEN Psubscribe(channel) ELSE <<>>
    /\ UNCHANGED <<redis_stream_enabled, published, channel, stream, nextId, logged, nextEv>>
    /\ UNCHANGED stream_ttl
    /\ UNCHANGED streamFrame

\* _stream_pubsub_fallback, one round of the listen loop: send the next pmessage.
StreamPubsubFallback ==
    /\ sub_pc = "pubsub"
    /\ sub_inbox # <<>>
    /\ delivered' = Append(delivered, [message_id |-> 0, ev |-> Head(sub_inbox),
                                       is_history |-> FALSE])
    /\ sub_inbox' = Tail(sub_inbox)
    /\ UNCHANGED <<redis_stream_enabled, published, channel, stream, nextId, sub_pc,
                   sub_last_id, sub_mode, caught_up, sub_since, sub_offset, logged, nextEv>>
    /\ UNCHANGED stream_ttl
    /\ UNCHANGED streamFrame

\* _send_stream_history: XRANGE, send every entry marked is_history, return the last
\* id ("0-0" when there is none); a failing XRANGE is logged and "0-0" returned.
SendStreamHistory ==
    /\ sub_pc = "history"
    /\ \E redis_ok \in BOOLEAN :
         LET messages == IF redis_ok THEN XRange(stream) ELSE <<>>
         IN  /\ delivered' = delivered \o [k \in 1..Len(messages) |-> Frame(messages[k], TRUE)]
             /\ sub_last_id' = IF messages = <<>> THEN 0 ELSE messages[Len(messages)].id
    /\ sub_pc' = "live"
    /\ UNCHANGED <<redis_stream_enabled, published, channel, stream, nextId, sub_mode,
                   caught_up, sub_since, sub_offset, logged, nextEv>>
    /\ UNCHANGED sub_inbox
    /\ UNCHANGED stream_ttl
    /\ UNCHANGED streamFrame

\* _stream_new_messages, one round of the loop: XREAD after last_id, send what it
\* returned, advance last_id.
StreamNewMessages ==
    /\ sub_pc = "live"
    /\ LET messages == XRead(stream, sub_last_id, XReadCount)
       IN  /\ delivered' = delivered \o [k \in 1..Len(messages) |-> Frame(messages[k], FALSE)]
           /\ sub_last_id' = IF messages = <<>> THEN sub_last_id
                             ELSE messages[Len(messages)].id
           /\ caught_up' = (messages = <<>>)
    /\ UNCHANGED <<redis_stream_enabled, published, channel, stream, nextId, sub_pc,
                   sub_mode, sub_since, sub_offset, logged, nextEv>>
    /\ UNCHANGED sub_inbox
    /\ UNCHANGED stream_ttl
    /\ UNCHANGED streamFrame

\* The client goes away and the handler's task is cancelled.
Disconnect ==
    /\ sub_pc \in {"history", "live", "pubsub"}
    /\ sub_pc' = "closed"
    /\ caught_up' = FALSE
    /\ UNCHANGED <<redis_stream_enabled, published, channel, stream, nextId, sub_last_id,
                   sub_mode, delivered, sub_since, sub_offset, logged, nextEv>>
    /\ sub_inbox' = <<>>
    /\ UNCHANGED stream_ttl
    /\ UNCHANGED streamFrame

InitStream ==
    /\ InitTurnIdle
    /\ InitLcIdle
    /\ InitTmoIdle
    /\ InitLiveIdle
    /\ InitJsonIdle
    /\ InitDelIdle
    /\ InitHistIdle
    /\ InitBindIdle
    /\ InitClientIdle
    /\ InitFanIdle
    /\ InitRaceIdle
    /\ InitIsoIdle
    /\ InitToolIdle
    /\ InitEndpointIdle
    /\ redis_stream_enabled \in BOOLEAN
    /\ published = <<>>
    /\ channel = <<>>
    /\ stream = <<>>
    /\ nextId = 1
    /\ sub_pc = "closed"
    /\ sub_last_id = 0
    /\ sub_mode = None
    /\ delivered = <<>>
    /\ sub_inbox = <<>>
    /\ caught_up = FALSE
    /\ sub_since = 0
    /\ sub_offset = 0
    /\ logged = {}
    /\ nextEv = 1
    /\ stream_ttl = None

NextStream ==
    \/ PublishMessage
    \/ PublishToStream
    \/ \E last_id \in {<<>>} \cup {<<x>> : x \in 0..MaxEvents} : Connect(last_id)
    \/ SendStreamHistory
    \/ StreamNewMessages
    \/ StreamPubsubFallback
    \/ Disconnect

SpecStream == InitStream /\ [][NextStream]_vars

\* ================================================================== streaming entrypoint

endpointFrame ==
    <<turnVars, toolVars, streamVars, isoVars, raceVars, fanVars, clientVars,
      bindVars, histVars, delVars, jsonVars, liveVars, tmoVars, lcVars>>

\* The fields ChatRequest declares.
ChatRequestFields == {"thread_id", "user_id", "message", "chat_model"}

\* The valid JSON bodies a client sends: thread_id and message, and optionally
\* user_id, chat_model, documents (<<>> when absent, else <<number of documents>>)
\* and enable_websearch (<<>> when absent, else <<flag>>).
RequestBodies ==
    [thread_id : {"t1", "t2"}, user_id : {None, "u1"}, message : {"question"},
     chat_model : {None, "qwen-plus-latest"},
     documents : {<<>>} \cup {<<n>> : n \in 0..MaxDocs},
     enable_websearch : {<<>>, <<TRUE>>, <<FALSE>>}]

\* ChatRequest(**body): pydantic keeps the declared fields and ignores the others.
ParseRequest(body) ==
    [thread_id |-> body.thread_id, user_id |-> body.user_id, message |-> body.message,
     chat_model |-> body.chat_model]

\* req.<name>: the value of a declared field; AttributeError for any other name.
HasAttr(req, name) == name \in ChatRequestFields /\ name \in DOMAIN req

StreamStartResponse(req) ==
    [status_code |-> 200, thread_id |-> req.thread_id, user_id |-> req.user_id,
     ws_channel |-> <<"workflow", req.thread_id, "*">>, status |-> "streaming"]

ServerError == [status_code |-> 500, thread_id |-> "", user_id |-> None,
                ws_channel |-> <<>>, status |-> "error"]

\* chat_stream_endpoint: reads req.user_id, req.chat_model, req.enable_websearch,
\* req.message and req.documents, then add_task and the response.
chat_stream_endpoint(req) ==
    IF \E name \in {"thread_id", "user_id", "chat_model", "enable_websearch", "message",
                     "documents"} : ~HasAttr(req, name)
    THEN [raised |-> TRUE, tasks |-> 0, response |-> ServerError]
    ELSE [raised |-> FALSE, tasks |-> 1, response |-> StreamStartResponse(req)]

\* HTTPException(503) of a dependency
ServiceUnavailable(detail) ==
    [status_code |-> 503, thread_id |-> "", user_id |-> None, ws_channel |-> <<>>,
     status |-> "error", detail |-> detail]

\* get_graph: the graph of the application state, or 503
get_graphUnchecked(graph) == <<>>

get_graph(graph) ==
    IF ~graph THEN <<ServiceUnavailable("Graph is not ready yet")>> ELSE <<>>

\* get_redis_client: RuntimeError when settings.redis_url is not set
get_redis_client(redis_url) ==
    IF ~redis_url THEN Raised("REDIS_URL is not configured.") ELSE Returned("client", <<>>)

\* get_redis_publisher: RedisPublisher() takes the client; RuntimeError becomes 503
get_redis_publisher(redis_url) ==
    LET client == get_redis_client(redis_url)
    IN  IF client.raised THEN <<ServiceUnavailable(client.text)>> ELSE <<>>

\* Depends(get_graph), Depends(get_redis_publisher), in the order of the
\* handler's parameters: the first HTTPException is the response.
SolveDependencies(graph, redis_url) ==
    IF get_graph(graph) # <<>> THEN get_graph(graph) ELSE get_redis_publisher(redis_url)

\* A client posts a valid body; FastAPI builds the ChatRequest.
PostStream(body) ==
    /\ ep_pc = "idle"
    /\ ep_body' = <<body>>
    /\ ep_req' = <<ParseRequest(body)>>
    /\ ep_pc' = "handling"
    /\ ep_response' = <<>>
    /\ ep_tasks' = 0
    /\ ep_ran' = 0
    /\ UNCHANGED <<ep_graph, ep_redis_url>>
    /\ UNCHANGED endpointFrame

\* The dependencies are resolved; if none fails the handler runs to its return or
\* to the exception that leaves it.
HandleStream ==
    /\ ep_pc = "handling"
    /\ LET failed == SolveDependencies(ep_graph, ep_redis_url)
           out == IF failed # <<>>
                  THEN [raised |-> TRUE, tasks |-> 0, response |-> failed[1]]
                  ELSE chat_stream_endpoint(ep_req[1])
       IN  /\ ep_response' = <<out.response>>
           /\ ep_tasks' = out.tasks
    /\ ep_pc' = "responded"
    /\ UNCHANGED <<ep_body, ep_req, ep_ran>>
    /\ UNCHANGED <<ep_graph, ep_redis_url>>
    /\ UNCHANGED endpointFrame

\* After the response is sent the scheduled background tasks are started.
AfterResponse ==
    /\ ep_pc = "responded"
    /\ ep_ran' = ep_tasks
    /\ ep_pc' = "closed"
    /\ UNCHANGED <<ep_body, ep_req, ep_response, ep_tasks>>
    /\ UNCHANGED <<ep_graph, ep_redis_url>>
    /\ UNCHANGED endpointFrame

\* The next exchange.
NextExchange ==
    /\ ep_pc = "closed"
    /\ ep_pc' = "idle"
    /\ ep_body' = <<>>
    /\ ep_req' = <<>>
    /\ ep_response' = <<>>
    /\ ep_tasks' = 0
    /\ ep_ran' = 0
    /\ UNCHANGED <<ep_graph, ep_redis_url>>
    /\ UNCHANGED endpointFrame

InitEndpoint ==
    /\ InitTurnIdle
    /\ InitLcIdle
    /\ InitTmoIdle
    /\ InitLiveIdle
    /\ InitJsonIdle
    /\ InitToolIdle
    /\ InitStreamIdle
    /\ InitIsoIdle
    /\ InitRaceIdle
    /\ InitFanIdle
    /\ InitClientIdle
    /\ InitBindIdle
    /\ InitHistIdle
    /\ InitDelIdle
    /\ ep_pc = "idle"
    /\ ep_body = <<>>
    /\ ep_req = <<>>
    /\ ep_response = <<>>
    /\ ep_tasks = 0
    /\ ep_ran = 0
    /\ ep_graph \in BOOLEAN
    /\ ep_redis_url \in BOOLEAN

NextEndpoint ==
    \/ \E body \in RequestBodies : PostStream(body)
    \/ HandleStream
    \/ AfterResponse
    \/ NextExchange

SpecEndpoint == InitEndpoint /\ [][NextEndpoint]_vars

\* ================================================================== properties of a turn

\* The messages the running turn has added to the state.
Added == SubSeq(msgs, Len(ckptAtStart) + 1, Len(msgs))

ToolMessagesOfTurn == SelectSeq(msgs, LAMBDA m : m.role = "tool" /\ m.turn = turn)

TerminalEvents ==
    SelectSeq(events, LAMBDA e : e.node = "workflow" /\ e.type \in {"complete", "error"})

Decided == "query_or_respond" \in Range(nodesRun)

\* C1: when query_or_respond returns a message without tool requests, the turn makes
\* exactly one model call, neither the tools node nor the generate node runs, and no
\* tool-result message is appended; the turn goes straight to its end.
C1_DirectAnswerSingleRoundTrip ==
    (Decided /\ decision = <<>>) =>
        /\ modelCalls = 1
        /\ nodesRun = <<"query_or_respond">>
        /\ ToolMessagesOfTurn = <<>>
        /\ genInput = <<>>
        /\ pc \notin {"tools", "generate"}
        /\ Len(Added) = 2

C1_Witness ==
    /\ pc = "done"
    /\ Decided
    /\ decision = <<>>
    /\ \E i \in DOMAIN ckptAtStart : ckptAtStart[i].role = "tool"

\* C2: the second model call receives every tool result of the turn: for each tool
\* request of the decision message, its result is part of the generate input.
C2_GenerateReceivesAllToolResults ==
    genInput # <<>> =>
        \A i \in 1..Len(decision) :
            \E k \in DOMAIN genInput[1].documents :
                /\ genInput[1].documents[k].turn = turn
                /\ genInput[1].documents[k].idx = i

\* C3 as stated: a turn that ends in failure, timeout or cancellation leaves the
\* thread's checkpoint exactly as it was before the turn.
C3_FailedTurnLeavesCheckpointUntouched ==
    pc \in Stopped => ckpt = ckptAtStart

Persisted == SubSeq(ckpt, Len(ckptAtStart) + 1, Len(ckpt))

\* The persisted messages of the turn are the outputs of whole steps, in step order.
WholeSteps(added) ==
    LET n == Len(decision)
    IN  /\ Len(added) \in {0, 1, 2, 2 + n, 3 + n}
        /\ Len(added) >= 1 => added[1] = UserMessage(turn)
        /\ Len(added) >= 2 => added[2] = AIMessage(turn, decision)
        /\ Len(added) > 2 =>
              /\ n > 0
              /\ \A i \in 1..n : /\ added[2 + i].role = "tool"
                                 /\ added[2 + i].turn = turn
                                 /\ added[2 + i].idx = i
        /\ Len(added) = 3 + n => added[3 + n] = AIMessage(turn, <<>>)

\* C3 as amended: a turn that ends in failure, timeout or cancellation never removes
\* or changes what was persisted before it, and what it has persisted are the
\* messages of the steps it completed (input, decision, all tool results, answer).
C3_FailedTurnKeepsCompletedSteps ==
    pc \in Stopped =>
        /\ IsPrefix(ckptAtStart, ckpt)
        /\ WholeSteps(Persisted)
        /\ Persisted = Added

C3_Witness ==
    /\ pc = "failed"
    /\ ckptAtStart # <<>>
    /\ Len(Persisted) = 2 + Len(decision)
    /\ Len(decision) = 2

\* C4 as stated: every turn publishes exactly one terminal event, except a cancelled
\* turn, which publishes none.
C4_OneTerminalEventUnlessCancelled ==
    pc \in Over =>
        IF pc \in {"cancelled", "cancelled_late"}
        THEN Len(TerminalEvents) = 0
        ELSE Len(TerminalEvents) = 1

\* C4 as amended: a turn never issues more than one terminal event; a turn that is not
\* cancelled issues exactly one (complete after a finished stream, error otherwise);
\* a turn cancelled while its workflow runs issues none; a turn cancelled while its
\* complete event is being published has issued that complete event and no error
\* event.  The terminal event is the last event of the turn.
C4_AtMostOneTerminalEvent ==
    /\ Len(TerminalEvents) <= 1
    /\ pc \in {"done", "pub_complete"} =>
          TerminalEvents = <<Event("workflow", "complete", "")>>
    /\ pc \in {"failed", "failed_cancelled", "pub_error"} =>
          /\ Len(TerminalEvents) = 1
          /\ TerminalEvents[1].type = "error"
    /\ pc = "cancelled" => TerminalEvents = <<>>
    /\ pc = "cancelled_late" => TerminalEvents = <<Event("workflow", "complete", "")>>
    /\ TerminalEvents # <<>> => events[Len(events)] = TerminalEvents[1]

C4_Witness ==
    /\ pc = "cancelled_late"
    /\ nodesRun = <<"query_or_respond", "tools", "generate">>
    /\ Len(TerminalEvents) = 1

\* C8: when GENERATING starts, exactly N tool-result messages follow the decision
\* message, the i-th being the result of the i-th request, whatever the order in
\* which the invocations finished.
C8_ToolResultsInRequestOrder ==
    pc = "generate" =>
        LET n == Len(decision)
        IN  /\ n >= 1
            /\ Len(Added) = 2 + n
            /\ Added[2] = AIMessage(turn, decision)
            /\ \A i \in 1..n : /\ Added[2 + i].role = "tool"
                               /\ Added[2 + i].tool = decision[i]
                               /\ Added[2 + i].idx = i
                               /\ Added[2 + i].turn = turn

C8_Witness ==
    /\ pc = "generate"
    /\ decision = <<"retrieve_context", "search_projects">>
    /\ finishOrder = <<2, 1>>

FailureTexts ==
    {"project search timed out", "project search unavailable", "project search failed",
     "Error: .. Please fix your mistakes."}

SomeToolFailed ==
    \/ \E i \in DOMAIN results : results[i].raised \/ results[i].text \in FailureTexts
    \/ \E k \in DOMAIN ToolMessagesOfTurn : ToolMessagesOfTurn[k].text \in FailureTexts

\* C9: a failing tool invocation does not abort the turn: it becomes a tool-result
\* message with a failure text, the other results are kept, generate runs once and
\* the turn ends with a complete event and no error event.  Turns that stop for
\* another reason (timeout, cancellation, a failing model call) are left out.
C9_ToolFailureDoesNotAbortTurn ==
    ( /\ pc \in {"done", "failed"}
      /\ Len(decision) >= 1
      /\ SomeToolFailed
      /\ \A k \in DOMAIN events : events[k].error_type # "timeout"
      /\ ~(modelCalls = 2 /\ "generate" \notin Range(nodesRun)) ) =>
        /\ pc = "done"
        /\ modelCalls = 2
        /\ nodesRun = <<"query_or_respond", "tools", "generate">>
        /\ Len(ToolMessagesOfTurn) = Len(decision)
        /\ \A i \in 1..Len(decision) : ToolMessagesOfTurn[i].text # ""
        /\ TerminalEvents = <<Event("workflow", "complete", "")>>

\* ================================================================== properties of a tool

\* Missing configuration, upstream timeout, upstream HTTP error or empty results.
ExpectedFailure(in) ==
    \/ in.env.upstream \in {"timeout", "http_error", "empty"}
    \/ in.name = "search_projects" /\ (~in.env.api_url \/ ~in.env.credentials)
    \/ in.name = "web_search" /\ ~in.env.tavily_api_key

\* C10: in each expected failure mode a tool capability does not raise and returns a
\* non-empty text with no artifacts.
C10_ToolNeverRaisesOnExpectedFailure ==
    (tool_out # <<>> /\ ExpectedFailure(tool_in[1])) =>
        /\ ~tool_out[1].raised
        /\ tool_out[1].text # ""
        /\ tool_out[1].artifacts \in {"empty", "none"}

\* ================================================================== properties of delivery

\* C5: with the durable log enabled, every publish_message call that Redis accepts
\* has appended its event to the thread's log and broadcast it on the channel.
C5_PublishAppendsAndBroadcasts ==
    redis_stream_enabled =>
        \A k \in DOMAIN published :
            published[k].redis_ok =>
                /\ published[k].ev \in logged
                /\ published[k].ev \in Range(channel)

LiveFrames == SelectSeq(delivered, LAMBDA f : ~f.is_history)

\* C6: a subscriber that connected without an offset and has read the log to its end
\* has been sent every event handed to the publisher since it connected, exactly
\* once and in publication order, after the replayed history.
C6_ReplayThenEveryNewEventOnce ==
    (redis_stream_enabled /\ sub_mode = "replay" /\ sub_pc = "live" /\ caught_up) =>
        /\ \A k \in (sub_since + 1)..Len(published) :
              published[k].redis_ok =>
                  Cardinality({j \in DOMAIN delivered :
                                  delivered[j].ev = published[k].ev}) = 1
        /\ \A i, j \in DOMAIN delivered :
              (delivered[i].is_history /\ ~delivered[j].is_history) => i < j

\* C7: a subscriber that connected with last_id = X is sent no replayed frame, only
\* events whose message id is greater than X, in increasing id order.
C7_ResumeOnlyAfterOffset ==
    sub_mode = "resume" =>
        /\ \A j \in DOMAIN delivered :
              /\ ~delivered[j].is_history
              /\ delivered[j].message_id > sub_offset
        /\ \A i, j \in DOMAIN delivered :
              i < j => delivered[i].message_id < delivered[j].message_id

C7_Witness ==
    /\ sub_mode = "resume"
    /\ sub_offset = 2
    /\ Len(delivered) = 2
    /\ \E k \in DOMAIN stream : stream[k].id <= sub_offset

\* ================================================================== failures of a turn

Caught(kind) == caught # <<>> /\ caught[1].kind = kind

\* How often the request's input was applied to the thread.
InputsApplied == Cardinality({i \in DOMAIN ckpt : ckpt[i] = UserMessage(turn)})

\* C11: a turn that exceeds workflow_timeout_seconds is aborted (no node completes
\* afterwards) and issues exactly one terminal event: an error event with error_type
\* timeout and timeout_seconds equal to the configured budget; it issues no complete
\* event.
C11_TimeoutPublishesTimeoutError ==
    Caught("TimeoutError") =>
        /\ pc \in {"pub_error", "failed", "failed_cancelled"}
        /\ TerminalEvents =
              <<ErrorEvent("timeout", TimeoutText, <<workflow_timeout_seconds>>)>>
        /\ events[Len(events)] = TerminalEvents[1]
        /\ \A k \in DOMAIN events : events[k].type # "complete"
        /\ Len(events) = Len(nodesRun) + 1

C11_Witness ==
    /\ pc = "failed"
    /\ Caught("TimeoutError")
    /\ nodesRun = <<"query_or_respond", "tools">>

\* C12: an exception that is neither a timeout nor a cancellation and leaves the
\* decision, tools or generate step yields exactly one terminal event: an error event
\* with error_type execution_error whose error text is str(exc); the request's input
\* is applied once and no node runs twice (no retry).
C12_ExceptionPublishesExecutionError ==
    Caught("Exception") =>
        /\ pc \in {"pub_error", "failed", "failed_cancelled"}
        /\ TerminalEvents = <<ErrorEvent("execution_error", caught[1].message, <<>>)>>
        /\ events[Len(events)] = TerminalEvents[1]
        /\ InputsApplied = 1
        /\ Cardinality(Range(nodesRun)) = Len(nodesRun)
        /\ modelCalls <= 2

C12_Witness ==
    /\ pc = "failed"
    /\ Caught("Exception")
    /\ caught[1].message = "similarity_search failed"
    /\ nodesRun = <<"query_or_respond">>
    /\ Len(decision) = 2

\* ================================================================== the publisher's failures

ResultsOf(h, i, c) ==
    {j \in DOMAIN h : h[j].role = "tool" /\ h[j].turn = h[i].turn /\ h[j].idx = c}

\* Every tool request has exactly one result, after it; every result has its request
\* before it.
WellFormedHistory(h) ==
    /\ \A i \in DOMAIN h :
          h[i].role = "ai" =>
              \A c \in 1..Len(h[i].calls) :
                  /\ Cardinality(ResultsOf(h, i, c)) = 1
                  /\ \A j \in ResultsOf(h, i, c) : j > i
    /\ \A j \in DOMAIN h :
          h[j].role = "tool" =>
              \E i \in 1..(j - 1) : /\ h[i].role = "ai"
                                     /\ h[i].turn = h[j].turn
                                     /\ h[j].idx \in 1..Len(h[i].calls)

\* C14: at every model call the history given to the model is well formed: each tool
\* request of an assistant message has exactly one tool-result message after it, and
\* no tool-result message precedes its request; this over threads whose earlier
\* turns failed, timed out or were cancelled.
\* (The second model call is given one human message, the prompt, and no history.)
C14_ModelSeesAnsweredToolRequests ==
    decideInput # <<>> => WellFormedHistory(decideInput[1])

\* ================================================================== shape of a turn

\* The turn has started and not ended.
InTurn == pc \in Running \cup {"pub_complete", "pub_error"}

\* The nodes run in graph order, each at most once; at most two model calls; a turn
\* that completes ran query_or_respond alone or all three nodes; the answer of
\* generate carries no tool request.
C15_Shape ==
    /\ IsPrefix(nodesRun, <<"query_or_respond", "tools", "generate">>)
    /\ modelCalls <= 2
    /\ modelCalls <= Len(nodesRun) + 1
    /\ pc \in {"finish", "pub_complete", "done", "cancelled_late"} =>
          /\ nodesRun \in {<<"query_or_respond">>,
                           <<"query_or_respond", "tools", "generate">>}
          /\ modelCalls = IF Len(nodesRun) = 1 THEN 1 ELSE 2
          /\ Added[Len(Added)].role = "ai"
          /\ Added[Len(Added)].calls = <<>> \/ Len(nodesRun) = 1
    /\ "tools" \in Range(nodesRun) => decision # <<>>

\* How many steps a turn can still take: every step of TurnProgress lowers it.
Rank ==
    CASE pc = "input" -> 7 + MaxToolCalls
      [] pc = "decide" -> 6 + MaxToolCalls
      [] pc = "tools" -> 5 + (Len(decision) - Len(finishOrder))
      [] pc = "generate" -> 4
      [] pc = "finish" -> 3
      [] pc \in {"pub_complete", "pub_error"} -> 2
      [] OTHER -> 0

\* C15: in a turn the nodes run in the order query_or_respond, then optionally tools
\* and generate, each at most once, with at most two model calls; no step leads back:
\* every step of the turn lowers a bounded rank (a streamed chunk leaves it as it
\* is), and while the turn has not ended a step is always possible, so every turn
\* that starts reaches a terminal state (done, failed or cancelled).
C15_TwoPhaseTurnTerminates ==
    /\ []C15_Shape
    /\ [][(TurnProgress => Rank' < Rank) /\ (StreamMessageChunk => Rank' = Rank)]_vars
    /\ [](InTurn => ENABLED TurnProgress)
    /\ [](Rank = 0 <=> pc \in Over \cup {"idle"})

C15_Witness ==
    /\ pc = "done"
    /\ nodesRun = <<"query_or_respond", "tools", "generate">>
    /\ modelCalls = 2
    /\ Len(decision) = 2

\* ================================================================== the durable log's ids

OutputEvents == SelectSeq(events, LAMBDA e : e.type = "output")

IsTerminal(e) == e.node = "workflow" /\ e.type \in {"complete", "error"}

\* C17: the node output events of a turn are those of the nodes that completed, in
\* the order they completed; the token events of a node come after the output of the
\* node before it and before its own output; the terminal event is the last event of
\* the turn; no event of type start is published.
C17_EventsInCausalOrder ==
    /\ [k \in 1..Len(OutputEvents) |-> OutputEvents[k].node] = nodesRun
    /\ \A k \in DOMAIN events :
          /\ events[k].type # "start"
          /\ IsTerminal(events[k]) => k = Len(events)
          /\ events[k].type = "token" =>
                /\ \A j \in 1..k : ~(events[j].type = "output" /\ events[j].node = events[k].node)
                /\ events[k].node = "generate" =>
                      \E j \in 1..k : events[j] = Event("tools", "output", "")
                /\ events[k].node = "query_or_respond" =>
                      \A j \in 1..k : events[j].type = "token"

C17_Witness ==
    /\ pc = "done"
    /\ nodesRun = <<"query_or_respond", "tools", "generate">>
    /\ [k \in DOMAIN events |-> events[k].type] =
          <<"token", "output", "output", "token", "output", "complete">>

\* ================================================================== the streaming response

\* C18: for every valid request the streaming entrypoint answers with thread_id,
\* user_id, ws_channel = workflow:{thread_id}:* and status "streaming", has scheduled
\* exactly one background turn, and that turn starts only after the response
\* (the graph and the publisher being available).
C18_StreamEndpointRespondsAndSchedulesOne ==
    (ep_graph /\ ep_redis_url) =>
        /\ ep_pc = "responded" =>
              /\ ep_response = <<StreamStartResponse(ep_body[1])>>
              /\ ep_tasks = 1
              /\ ep_ran = 0
        /\ ep_pc = "closed" => ep_ran = 1

\* ================================================================== the log disabled

\* C19: with redis_stream_enabled false, publish_message issues PUBLISH only: the
\* durable log is never appended to, trimmed or given a TTL, and the channel carries
\* exactly the events Redis accepted, in call order.
C19_DisabledLogOnlyBroadcasts ==
    ~redis_stream_enabled =>
        /\ stream = <<>>
        /\ nextId = 1
        /\ logged = {}
        /\ \A k \in DOMAIN published : published[k].commands = {"PUBLISH"}
        /\ channel = [k \in 1..Len(SelectSeq(published, LAMBDA c : c.redis_ok)) |->
                         SelectSeq(published, LAMBDA c : c.redis_ok)[k].ev]

C19_Witness ==
    /\ ~redis_stream_enabled
    /\ Len(published) >= 2
    /\ Len(channel) = 1

\* The calls of publish_message made since the subscriber connected that Redis
\* accepted.
AcceptedSinceConnect ==
    {published[k].ev : k \in {i \in DOMAIN published : i > sub_since /\ published[i].redis_ok}}

\* C20: with redis_stream_enabled false the subscription is served by Pub/Sub only;
\* what the subscriber is sent are events published while it is subscribed, each at
\* most once and in publication order, never marked as history; nothing published
\* before it subscribed or while it was disconnected is sent.
C20_PubSubOnlyAtMostOnceNoReplay ==
    ~redis_stream_enabled =>
        /\ sub_mode \in {None, "pubsub"}
        /\ sub_pc \in {"closed", "pubsub"}
        /\ \A k \in DOMAIN delivered :
              /\ ~delivered[k].is_history
              /\ delivered[k].ev \in AcceptedSinceConnect
        /\ \A i, j \in DOMAIN delivered : i < j => delivered[i].ev < delivered[j].ev

C20_Witness ==
    /\ ~redis_stream_enabled
    /\ sub_pc = "pubsub"
    /\ sub_since >= 1
    /\ channel # <<>>
    /\ channel[1] <= sub_since
    /\ Len(delivered) >= 2

\* ================================================================== thread isolation
\* SpecIso: one websocket subscribed to a thread, one event published for a thread.
\* Identifiers are strings: a sequence of characters of IdAlphabet. The fixed
\* words of a key or channel ("workflow", a node name, a message type) stand
\* as one character each; they hold no ":" and no glob character.

MaxIdLen == 3

IdAlphabet == {"a", ":", "*"}

ThreadIds == SeqsUpTo(IdAlphabet, MaxIdLen) \ {<<>>}

\* RedisPublisher._channel: f"workflow:{thread_id}:{node_name}:{message_type}"
_channel(thread_id, node_name, message_type) ==
    <<"workflow", ":">> \o thread_id \o <<":", node_name, ":", message_type>>

\* _stream_pubsub_fallback: pattern = f"workflow:{thread_id}:*"
Pattern(thread_id) == <<"workflow", ":">> \o thread_id \o <<":", "*">>

\* the key of a thread's durable log: f"workflow:execution:{thread_id}"
_stream_key(thread_id) == <<"workflow", ":", "execution", ":">> \o thread_id

\* Redis PSUBSCRIBE matches channels glob-style: "*" stands for any run of
\* characters, "?" for any one character, every other character for itself.
RECURSIVE GlobMatch(_, _)
GlobMatch(pattern, string) ==
    IF pattern = <<>> THEN string = <<>>
    ELSE IF Head(pattern) = "*"
         THEN \E k \in 0..Len(string) :
                 GlobMatch(Tail(pattern), SubSeq(string, k + 1, Len(string)))
    ELSE IF string = <<>> THEN FALSE
    ELSE /\ Head(pattern) = "?" \/ Head(pattern) = Head(string)
         /\ GlobMatch(Tail(pattern), Tail(string))

IsoModes == {"stream", "pubsub"}

\* What Redis hands the subscription of thread `sub` for one published event:
\* log delivery reads the key of the subscriber's thread (stream.py:28, 53),
\* the fallback receives every channel its pattern matches (stream.py:84-93).
Receives(sub, ev) ==
    IF sub.mode = "stream"
    THEN _stream_key(sub.thread_id) = _stream_key(ev.thread_id)
    ELSE GlobMatch(Pattern(sub.thread_id),
                   _channel(ev.thread_id, ev.node_name, ev.message_type))

isoFrame ==
    <<turnVars, toolVars, streamVars, endpointVars, raceVars, fanVars, clientVars,
      bindVars, histVars, delVars, jsonVars, liveVars, tmoVars, lcVars>>

\* websocket_stream for /ws/{thread_id}
IsoSubscribe(thread_id, mode) ==
    /\ iso_sub = <<>>
    /\ iso_sub' = <<[thread_id |-> thread_id, mode |-> mode]>>
    /\ UNCHANGED <<iso_pub, iso_sent>>
    /\ UNCHANGED isoFrame

\* a turn of thread `thread_id` publishes an event; the websocket is sent it
\* if Redis hands it to the subscription
IsoPublish(thread_id) ==
    /\ iso_sub # <<>>
    /\ iso_pub = <<>>
    /\ LET ev == [thread_id |-> thread_id, node_name |-> "node_name",
                  message_type |-> "message_type"]
       IN /\ iso_pub' = <<ev>>
          /\ iso_sent' = IF Receives(iso_sub[1], ev) THEN <<ev>> ELSE <<>>
    /\ UNCHANGED iso_sub
    /\ UNCHANGED isoFrame

InitIso ==
    /\ InitTurnIdle
    /\ InitLcIdle
    /\ InitTmoIdle
    /\ InitLiveIdle
    /\ InitJsonIdle
    /\ InitDelIdle
    /\ InitHistIdle
    /\ InitBindIdle
    /\ InitClientIdle
    /\ InitFanIdle
    /\ InitRaceIdle
    /\ InitToolIdle
    /\ InitStreamIdle
    /\ InitEndpointIdle
    /\ iso_sub = <<>>
    /\ iso_pub = <<>>
    /\ iso_sent = <<>>

NextIso ==
    \/ \E t \in ThreadIds, m \in IsoModes : IsoSubscribe(t, m)
    \/ \E t \in ThreadIds : IsoPublish(t)

SpecIso == InitIso /\ [][NextIso]_vars

\* C21: a subscriber of thread T is only sent events whose thread_id is T, in
\* both delivery modes, for every pair of thread identifier strings.
C21_SubscriberOnlySeesOwnThread ==
    \A k \in DOMAIN iso_sent : iso_sent[k].thread_id = iso_sub[1].thread_id

\* ---- C22
\* The log holds the newest events only: ids are consecutive up to the last one
\* assigned, so a trimmed entry is always older than every entry kept.
LogIsNewestSuffix ==
    \A k \in DOMAIN stream : stream[k].id = nextId - 1 - (Len(stream) - k)

\* The last publish_message call was made with the log enabled and Redis took it.
LastPublishSucceededWithLog ==
    /\ published # <<>>
    /\ redis_stream_enabled
    /\ published[Len(published)].redis_ok
    /\ nextEv = published[Len(published)].ev + 1

\* C22: after every successful publish to the durable log the log holds at most
\* stream_max_length events, trimming has removed the oldest events first, and
\* the log's retention TTL is reset to stream_ttl_seconds.
C22_LogBoundedTrimmedAndTtlReset ==
    /\ Len(stream) <= stream_max_length
    /\ LogIsNewestSuffix
    /\ LastPublishSucceededWithLog =>
          /\ stream # <<>>
          /\ stream[Len(stream)].ev = published[Len(published)].ev
          /\ stream_ttl = stream_ttl_seconds

\* The same for the log append on its own (_publish_to_stream), which exists in
\* the unit tests only: it satisfies the three parts.
C22_AppendOnItsOwnKeepsTheLogBounded ==
    [][(PublishToStream /\ nextId' # nextId) =>
          /\ Len(stream') <= stream_max_length
          /\ stream'[Len(stream')].id = nextId
          /\ IsPrefix(SubSeq(stream', 1, Len(stream') - 1),
                      SubSeq(stream, Len(stream) - Len(stream') + 2, Len(stream)))
          /\ stream_ttl' = stream_ttl_seconds]_vars

\* ================================================================== concurrent turns
\* SpecRace: several POST /stream requests for one thread_id. Each schedules
\* _stream_workflow_to_redis as a background task on the same event loop; the
\* tasks interleave at their awaits (checkpoint read, checkpoint write, model
\* call).

MaxRuns == 2

Runs == 1..MaxRuns

RaceRunning == {"input", "save_input", "decide", "generate"}

\* chat_stream_endpoint: background_tasks.add_task is unconditional; given the
\* positions of the thread's turns, may turn i be started?
MayStartSerialized(pcs, i) == \A j \in DOMAIN pcs : pcs[j] \notin RaceRunning

MayStart(pcs, i) == TRUE

raceFrame ==
    <<turnVars, toolVars, streamVars, endpointVars, isoVars, fanVars, clientVars,
      bindVars, histVars, delVars, jsonVars, liveVars, tmoVars, lcVars>>

\* POST /stream: the handler schedules the turn
RaceStart(i) ==
    /\ race_pc[i] = "idle"
    /\ MayStart(race_pc, i)
    /\ race_pc' = [race_pc EXCEPT ![i] = "input"]
    /\ UNCHANGED <<race_ckpt, race_msgs, race_loaded, race_writer>>
    /\ UNCHANGED raceFrame

\* graph.astream: read the thread's latest checkpoint and apply the input to it
RaceLoad(i) ==
    /\ race_pc[i] = "input"
    /\ race_loaded' = [race_loaded EXCEPT ![i] = <<race_ckpt>>]
    /\ race_msgs' = [race_msgs EXCEPT ![i] = Append(race_ckpt, UserMessage(i))]
    /\ race_pc' = [race_pc EXCEPT ![i] = "save_input"]
    /\ UNCHANGED <<race_ckpt, race_writer>>
    /\ UNCHANGED raceFrame

\* the checkpointer stores the turn's state as the thread's latest checkpoint
RaceWrite(i, state) ==
    /\ race_ckpt' = SaveCheckpoint(state, i)
    /\ race_writer' = i

RaceSaveInput(i) ==
    /\ race_pc[i] = "save_input"
    /\ RaceWrite(i, race_msgs[i])
    /\ race_pc' = [race_pc EXCEPT ![i] = "decide"]
    /\ UNCHANGED <<race_msgs, race_loaded>>
    /\ UNCHANGED raceFrame

\* query_or_respond, then the checkpoint of the step; a direct answer ends the turn
RaceDecide(i) ==
    /\ race_pc[i] = "decide"
    /\ \E calls \in {<<>>, <<"retrieve_context">>} :
         /\ race_msgs' = [race_msgs EXCEPT ![i] = Append(@, AIMessage(i, calls))]
         /\ race_pc' = [race_pc EXCEPT ![i] = IF calls = <<>> THEN "done" ELSE "generate"]
    /\ RaceWrite(i, race_msgs'[i])
    /\ UNCHANGED race_loaded
    /\ UNCHANGED raceFrame

\* tools and generate, then the checkpoint of the step
RaceGenerate(i) ==
    /\ race_pc[i] = "generate"
    /\ race_msgs' = [race_msgs EXCEPT ![i] =
                        @ \o <<ToolMessage(i, "retrieve_context", 1, "Source"),
                               AIMessage(i, <<>>)>>]
    /\ race_pc' = [race_pc EXCEPT ![i] = "done"]
    /\ RaceWrite(i, race_msgs'[i])
    /\ UNCHANGED race_loaded
    /\ UNCHANGED raceFrame

InitRace ==
    /\ InitTurnIdle
    /\ InitLcIdle
    /\ InitTmoIdle
    /\ InitLiveIdle
    /\ InitJsonIdle
    /\ InitDelIdle
    /\ InitHistIdle
    /\ InitBindIdle
    /\ InitClientIdle
    /\ InitFanIdle
    /\ InitToolIdle
    /\ InitStreamIdle
    /\ InitEndpointIdle
    /\ InitIsoIdle
    /\ race_ckpt \in {<<>>, <<UserMessage(0), AIMessage(0, <<>>)>>}
    /\ race_pc = [i \in Runs |-> "idle"]
    /\ race_msgs = [i \in Runs |-> <<>>]
    /\ race_loaded = [i \in Runs |-> <<>>]
    /\ race_writer = 0

NextRace ==
    \E i \in Runs :
        \/ RaceStart(i)
        \/ RaceLoad(i)
        \/ RaceSaveInput(i)
        \/ RaceDecide(i)
        \/ RaceGenerate(i)

SpecRace == InitRace /\ [][NextRace]_vars

\* The messages turn i has added to what it loaded.
RaceOwn(i) == SubSeq(race_msgs[i], Len(race_loaded[i][1]) + 1, Len(race_msgs[i]))

\* C23: nothing serializes the turns of a thread: a turn can be started while
\* another one runs, each turn works on the checkpoint it loaded plus its own
\* messages only, and each write replaces the latest checkpoint by the writer's
\* state, whatever another turn has written in between.
C23_ConcurrentTurnsRaceOnCheckpoint ==
    /\ \A i \in Runs : race_pc[i] = "idle" => ENABLED RaceStart(i)
    /\ \A i \in Runs : race_loaded[i] # <<>> =>
          /\ IsPrefix(race_loaded[i][1], race_msgs[i])
          /\ \A k \in DOMAIN RaceOwn(i) : RaceOwn(i)[k].turn = i
    /\ race_writer # 0 => race_ckpt = race_msgs[race_writer]

\* Two turns loaded the same prior checkpoint, both have finished, and the
\* latest checkpoint holds nothing of the first one.
C23_Witness ==
    /\ race_pc[1] = "done" /\ race_pc[2] = "done"
    /\ race_loaded[1] = race_loaded[2]
    /\ race_writer = 2
    /\ \A k \in DOMAIN race_ckpt : race_ckpt[k].turn # 1

\* ================================================================== several subscribers
\* SpecFanout: one thread, its publisher and several websockets of /ws/{thread_id}.

MaxSubscribers == 2

Subscribers == 1..MaxSubscribers

fanFrame ==
    <<turnVars, toolVars, streamVars, endpointVars, isoVars, raceVars, clientVars,
      bindVars, histVars, delVars, jsonVars, liveVars, tmoVars, lcVars>>

NoSubscriber ==
    [pc |-> "idle", last_id |-> 0, got |-> <<>>, inbox |-> <<>>, caught_up |-> FALSE,
     since |-> 0]

\* publish_message: the events of one thread, numbered in call order. Redis
\* pushes what is PUBLISHed to every subscription that exists.
FanPublish ==
    /\ Len(fan_published) < MaxEvents
    /\ LET ev == Len(fan_published) + 1
           commands == PublishCommands(fan_enabled)
       IN  /\ fan_published' = Append(fan_published, [ev |-> ev, via |-> "publish_message"])
           /\ fan_log' = IF "XADD" \in commands
                         THEN Trim(Append(fan_log, [id |-> ev, ev |-> ev]), stream_max_length)
                         ELSE fan_log
           /\ fan_subs' = [s \in Subscribers |->
                 IF fan_subs[s].pc = "pubsub" /\ "PUBLISH" \in commands
                 THEN [fan_subs[s] EXCEPT !.inbox = Append(@, ev)]
                 ELSE [fan_subs[s] EXCEPT !.caught_up = FALSE]]
    /\ UNCHANGED fan_enabled
    /\ UNCHANGED fanFrame

\* _publish_to_stream called on its own: XADD, XTRIM, EXPIRE
FanAppend ==
    /\ fan_enabled
    /\ Len(fan_published) < MaxEvents
    /\ LET ev == Len(fan_published) + 1
       IN  /\ fan_published' = Append(fan_published, [ev |-> ev, via |-> "_publish_to_stream"])
           /\ fan_log' = Trim(Append(fan_log, [id |-> ev, ev |-> ev]), stream_max_length)
    /\ fan_subs' = [s \in Subscribers |-> [fan_subs[s] EXCEPT !.caught_up = FALSE]]
    /\ UNCHANGED fan_enabled
    /\ UNCHANGED fanFrame

\* websocket_stream without last_id: accept, then history or the fallback
FanConnect(s) ==
    /\ fan_subs[s].pc = "idle"
    /\ LET mode == DeliveryMode(fan_enabled, <<>>)
       IN  fan_subs' = [fan_subs EXCEPT ![s] =
              [NoSubscriber EXCEPT !.pc = IF mode = "pubsub" THEN "pubsub" ELSE "history",
                                   !.inbox = Psubscribe(<<>>),
                                   !.since = Len(fan_published)]]
    /\ UNCHANGED <<fan_enabled, fan_published, fan_log>>
    /\ UNCHANGED fanFrame

\* _send_stream_history
FanHistory(s) ==
    /\ fan_subs[s].pc = "history"
    /\ LET messages == XRange(fan_log)
       IN  fan_subs' = [fan_subs EXCEPT ![s] =
              [@ EXCEPT !.pc = "live",
                        !.got = [k \in 1..Len(messages) |-> Frame(messages[k], TRUE)],
                        !.last_id = IF messages = <<>> THEN 0
                                    ELSE messages[Len(messages)].id]]
    /\ UNCHANGED <<fan_enabled, fan_published, fan_log>>
    /\ UNCHANGED fanFrame

\* _stream_new_messages, one round
FanRead(s) ==
    /\ fan_subs[s].pc = "live"
    /\ LET messages == XRead(fan_log, fan_subs[s].last_id, XReadCount)
       IN  fan_subs' = [fan_subs EXCEPT ![s] =
              [@ EXCEPT !.got = @ \o [k \in 1..Len(messages) |-> Frame(messages[k], FALSE)],
                        !.last_id = IF messages = <<>> THEN @
                                    ELSE messages[Len(messages)].id,
                        !.caught_up = (messages = <<>>)]]
    /\ UNCHANGED <<fan_enabled, fan_published, fan_log>>
    /\ UNCHANGED fanFrame

\* _stream_pubsub_fallback, one round of the listen loop
FanForward(s) ==
    /\ fan_subs[s].pc = "pubsub"
    /\ fan_subs[s].inbox # <<>>
    /\ fan_subs' = [fan_subs EXCEPT ![s] =
          [@ EXCEPT !.got = Append(@, [message_id |-> 0, ev |-> Head(fan_subs[s].inbox),
                                       is_history |-> FALSE]),
                    !.inbox = Tail(@)]]
    /\ UNCHANGED <<fan_enabled, fan_published, fan_log>>
    /\ UNCHANGED fanFrame

\* the client goes away: the handler ends, the fallback closes its own subscription
FanDisconnect(s) ==
    /\ fan_subs[s].pc \in {"history", "live", "pubsub"}
    /\ fan_subs' = [fan_subs EXCEPT ![s] = [@ EXCEPT !.pc = "closed", !.inbox = <<>>,
                                                     !.caught_up = FALSE]]
    /\ UNCHANGED <<fan_enabled, fan_published, fan_log>>
    /\ UNCHANGED fanFrame

InitFanout ==
    /\ InitTurnIdle
    /\ InitLcIdle
    /\ InitTmoIdle
    /\ InitLiveIdle
    /\ InitJsonIdle
    /\ InitDelIdle
    /\ InitHistIdle
    /\ InitBindIdle
    /\ InitClientIdle
    /\ InitToolIdle
    /\ InitStreamIdle
    /\ InitEndpointIdle
    /\ InitIsoIdle
    /\ InitRaceIdle
    /\ fan_enabled \in BOOLEAN
    /\ fan_published = <<>>
    /\ fan_log = <<>>
    /\ fan_subs = [s \in Subscribers |-> NoSubscriber]

SubscriberStep(s) ==
    \/ FanConnect(s)
    \/ FanHistory(s)
    \/ FanRead(s)
    \/ FanForward(s)
    \/ FanDisconnect(s)

NextFanout ==
    \/ FanPublish
    \/ FanAppend
    \/ \E s \in Subscribers : SubscriberStep(s)

SpecFanout == InitFanout /\ [][NextFanout]_vars

GotEvents(s) == [k \in DOMAIN fan_subs[s].got |-> fan_subs[s].got[k].ev]

Ascending(seq) == \A j, k \in DOMAIN seq : j < k => seq[j] < seq[k]

\* The events handed to publish_message after the first `since` publisher calls.
BroadcastSince(since) ==
    LET later == SubSeq(fan_published, since + 1, Len(fan_published))
        mine == SelectSeq(later, LAMBDA p : p.via = "publish_message")
    IN  [k \in DOMAIN mine |-> mine[k].ev]

\* Subscriber s has nothing left to read.
FanCaughtUp(s) ==
    \/ fan_subs[s].pc = "live" /\ fan_subs[s].caught_up
    \/ fan_subs[s].pc = "pubsub" /\ fan_subs[s].inbox = <<>>

\* C24: every subscriber connected to the thread receives the thread's full
\* event sequence in the same order: once it has nothing left to read, a
\* log subscriber has the events in publish order up to the latest one, and a
\* Pub/Sub subscriber has every event published since it subscribed.
C24_EverySubscriberReceivesFullSequence ==
    \A s \in Subscribers : FanCaughtUp(s) =>
        /\ Ascending(GotEvents(s))
        /\ fan_subs[s].pc = "live" /\ fan_published # <<>> =>
              /\ GotEvents(s) # <<>>
              /\ GotEvents(s)[Len(GotEvents(s))] = Len(fan_published)
        /\ fan_subs[s].pc = "pubsub" => GotEvents(s) = BroadcastSince(fan_subs[s].since)

\* The other half of it: subscribing, reading or disconnecting by one
\* subscriber never modifies the durable log nor any other subscriber.
C24_SubscribersAreReadOnly ==
    [][\A s \in Subscribers : SubscriberStep(s) =>
          /\ fan_log' = fan_log
          /\ fan_published' = fan_published
          /\ \A o \in Subscribers \ {s} : fan_subs'[o] = fan_subs[o]]_vars

\* ================================================================== project search client
\* SpecClient: one ProjectSearchClient, search called on it a few times; the
\* API's answer to each request is chosen freely.

MaxCalls == 3

\* What the API answers a request: a status, or no answer at all (timeout,
\* connection error), which httpx raises as another exception.
Answers == {"200", "401", "403", "404", "500", "network"}

\* search, except httpx.HTTPStatusError: is the request made a second time?
ShouldRetryAnyStatus(answer) == answer \in {"401", "403", "404", "500"}

ShouldRetry(answer) == answer = "401"

clientFrame ==
    <<turnVars, toolVars, streamVars, endpointVars, isoVars, raceVars, fanVars,
      bindVars, histVars, delVars, jsonVars, liveVars, tmoVars, lcVars>>

ClientRaised(answer) == <<[kind |-> "raised", answer |-> answer]>>

ClientReturned == <<[kind |-> "returned", answer |-> "200"]>>

\* await client.search(query)
ClientCall ==
    /\ client_pc \in {"idle", "done"}
    /\ client_calls < MaxCalls
    /\ client_calls' = client_calls + 1
    /\ client_pc' = "token"
    /\ client_requests' = <<>>
    /\ client_result' = <<>>
    /\ UNCHANGED client_token
    /\ UNCHANGED clientFrame

\* _get_token, from `at`: the cached token, or a token request; a failure is
\* logged and raised, which ends the call.
GetToken(at, then) ==
    /\ client_pc = at
    /\ IF client_token # None
       THEN /\ client_pc' = then
            /\ UNCHANGED <<client_token, client_requests, client_result>>
       ELSE \E answer \in Answers :
               /\ client_requests' = Append(client_requests,
                                            [kind |-> "token", answer |-> answer])
               /\ IF answer = "200"
                  THEN /\ client_token' = "token"
                       /\ client_pc' = then
                       /\ UNCHANGED client_result
                  ELSE /\ client_pc' = "done"
                       /\ client_result' = ClientRaised(answer)
                       /\ UNCHANGED client_token
    /\ UNCHANGED client_calls
    /\ UNCHANGED clientFrame

ClientGetToken == GetToken("token", "search")

\* the search request inside try: a 401 clears the token and goes on to the
\* retry, every other failure is raised
ClientSearch ==
    /\ client_pc = "search"
    /\ \E answer \in Answers :
         /\ client_requests' = Append(client_requests, [kind |-> "search", answer |-> answer])
         /\ IF answer = "200"
            THEN /\ client_pc' = "done"
                 /\ client_result' = ClientReturned
                 /\ UNCHANGED client_token
            ELSE IF ShouldRetry(answer)
            THEN /\ client_pc' = "retoken"
                 /\ client_token' = None
                 /\ UNCHANGED client_result
            ELSE /\ client_pc' = "done"
                 /\ client_result' = ClientRaised(answer)
                 /\ UNCHANGED client_token
    /\ UNCHANGED client_calls
    /\ UNCHANGED clientFrame

\* inside the except clause: token = await self._get_token()
ClientReacquire == GetToken("retoken", "retry")

\* inside the except clause: the second search request; its failure leaves the
\* handler as it is raised
ClientRetry ==
    /\ client_pc = "retry"
    /\ \E answer \in Answers :
         /\ client_requests' = Append(client_requests, [kind |-> "search", answer |-> answer])
         /\ client_pc' = "done"
         /\ client_result' = IF answer = "200" THEN ClientReturned ELSE ClientRaised(answer)
    /\ UNCHANGED <<client_token, client_calls>>
    /\ UNCHANGED clientFrame

InitClient ==
    /\ InitTurnIdle
    /\ InitLcIdle
    /\ InitTmoIdle
    /\ InitLiveIdle
    /\ InitJsonIdle
    /\ InitDelIdle
    /\ InitHistIdle
    /\ InitBindIdle
    /\ InitToolIdle
    /\ InitStreamIdle
    /\ InitEndpointIdle
    /\ InitIsoIdle
    /\ InitRaceIdle
    /\ InitFanIdle
    /\ client_token = None
    /\ client_pc = "idle"
    /\ client_requests = <<>>
    /\ client_result = <<>>
    /\ client_calls = 0

NextClient ==
    \/ ClientCall
    \/ ClientGetToken
    \/ ClientSearch
    \/ ClientReacquire
    \/ ClientRetry

SpecClient == InitClient /\ [][NextClient]_vars

RequestsOfKind(kind) == SelectSeq(client_requests, LAMBDA r : r.kind = kind)

\* C25: a search call makes at most two search requests and two token requests;
\* the second search request follows a 401 to the first and exactly one token
\* request made after it (the cached token was cleared); every other failure of
\* the first request, and any failure of the retry, is what the call raises.
C25_RetryOnceOn401 ==
    LET searches == RequestsOfKind("search")
        tokens == RequestsOfKind("token")
        n == Len(client_requests)
    IN  /\ Len(searches) <= 2
        /\ Len(tokens) <= 2
        /\ Len(searches) = 2 =>
              /\ searches[1].answer = "401"
              /\ client_requests[n].kind = "search"
              /\ client_requests[n - 1] = [kind |-> "token", answer |-> "200"]
              /\ client_requests[n - 2] = searches[1]
        /\ (Len(searches) >= 1 /\ searches[1].answer = "401") => client_pc # "search"
        /\ client_pc \in {"retoken"} => client_token = None
        /\ client_pc = "done" =>
              /\ n >= 1
              /\ client_result =
                    IF client_requests[n].answer = "200" /\ client_requests[n].kind = "search"
                    THEN ClientReturned
                    ELSE ClientRaised(client_requests[n].answer)
              /\ (Len(searches) = 1 /\ searches[1].answer \notin {"200", "401"}) =>
                    client_result = ClientRaised(searches[1].answer)

\* A call on a cached token: 401, the token is acquired again, the retry fails
\* with a 500, which the call raises.
C25_Witness ==
    /\ client_pc = "done"
    /\ client_calls = 2
    /\ client_requests = <<[kind |-> "search", answer |-> "401"],
                           [kind |-> "token", answer |-> "200"],
                           [kind |-> "search", answer |-> "500"]>>
    /\ client_result = ClientRaised("500")

\* ================================================================== tools of a call
\* SpecBind: one turn, run with the per-call options a caller puts in
\* config["configurable"].

bindFrame ==
    <<turnVars, toolVars, streamVars, endpointVars, isoVars, raceVars, fanVars,
      clientVars, histVars, delVars, jsonVars, liveVars, tmoVars, lcVars>>

\* The tools the tools node holds: ToolNode(_tools), built when the module is loaded.
ToolNodeToolsRetrieveOnly(enabled) == {"retrieve_context"}

ToolNodeTools(enabled) ==
    IF enabled THEN {"retrieve_context", "search_projects"} ELSE {"retrieve_context"}

\* query_or_respond: reads chat_model from the config, builds the tools list
\* from the settings and binds it; the model answers with tool requests,
\* by name.
BindDecide ==
    /\ bind_pc = "decide"
    /\ bind_bound' = BoundTools(bind_settings)
    /\ \E calls \in SeqsUpTo(ToolNames, MaxToolCalls) :
         /\ bind_requested' = calls
         /\ bind_pc' = IF calls = <<>> THEN "done" ELSE "tools"
    /\ UNCHANGED <<bind_settings, bind_config, bind_executed>>
    /\ UNCHANGED bindFrame

\* the tools node: a request naming a tool it holds runs the tool, any other
\* request is answered with an error message
BindTools ==
    /\ bind_pc = "tools"
    /\ bind_executed' = Range(bind_requested) \cap ToolNodeTools(bind_settings)
    /\ bind_pc' = "done"
    /\ UNCHANGED <<bind_settings, bind_config, bind_bound, bind_requested>>
    /\ UNCHANGED bindFrame

InitBind ==
    /\ InitTurnIdle
    /\ InitLcIdle
    /\ InitTmoIdle
    /\ InitLiveIdle
    /\ InitJsonIdle
    /\ InitDelIdle
    /\ InitHistIdle
    /\ InitToolIdle
    /\ InitStreamIdle
    /\ InitEndpointIdle
    /\ InitIsoIdle
    /\ InitRaceIdle
    /\ InitFanIdle
    /\ InitClientIdle
    /\ bind_settings \in BOOLEAN
    /\ bind_config \in {<<[enable_websearch |-> b]>> : b \in BOOLEAN}
    /\ bind_pc = "decide"
    /\ bind_bound = {}
    /\ bind_requested = <<>>
    /\ bind_executed = {}

NextBind == BindDecide \/ BindTools

SpecBind == InitBind /\ [][NextBind]_vars

\* The Tool Capabilities enabled for a call.
EnabledTools(enabled, enable_websearch) ==
    {"retrieve_context"}
        \cup (IF enabled THEN {"search_projects"} ELSE {})
        \cup (IF enable_websearch THEN {"web_search"} ELSE {})

\* C26: the decision binds exactly the tools enabled for the call (document
\* search always, project search when project_search_enabled, web search
\* when the call sets enable_websearch) and a tool that is not enabled is
\* never executed in the turn.
C26_BindsExactlyEnabledTools ==
    bind_pc \in {"tools", "done"} =>
        /\ bind_bound = EnabledTools(bind_settings, bind_config[1].enable_websearch)
        /\ bind_executed \subseteq EnabledTools(bind_settings, bind_config[1].enable_websearch)

\* The half that holds: what is bound and what is executed never goes beyond
\* the tools enabled for the call.
C26_NothingBeyondEnabledTools ==
    /\ bind_bound \subseteq EnabledTools(bind_settings, bind_config[1].enable_websearch)
    /\ bind_executed \subseteq EnabledTools(bind_settings, bind_config[1].enable_websearch)

\* ================================================================== history retrieval
\* SpecHistory: GET /threads/{thread_id}/history on a thread whose checkpoint is
\* drawn from the message sequences of a bounded length, or which has none.

MaxHistory == 3

\* A stored message: its class, its content and (AIMessage) its tool_calls.
StoredMessages ==
    [type : {"human"}, content : {"", "text"}, tool_calls : {<<>>}]
        \cup [type : {"ai"}, content : {"", "text"},
              tool_calls : {<<>>, <<"retrieve_context">>}]
        \cup [type : {"tool", "system"}, content : {"text"}, tool_calls : {<<>>}]

\* _filter_user_visible_messages: the messages the loop skips
SkippedByTypeOnly(msg) == msg.type \in {"tool", "system"}

Skipped(msg) ==
    \/ msg.type \in {"tool", "system"}
    \/ msg.type = "ai" /\ (msg.tool_calls # <<>> \/ msg.content = "")

\* extract_content, then str(content) if content else ""
extract_content(msg) == msg.content

HistoryMessage(msg, i) ==
    [index |-> i,
     role |-> IF msg.type = "human" THEN "user" ELSE "assistant",
     content |-> extract_content(msg),
     type |-> msg.type]

\* the loop over enumerate(messages), from index i on
RECURSIVE FilterFrom(_, _)
FilterFrom(messages, i) ==
    IF i > Len(messages) THEN <<>>
    ELSE IF Skipped(messages[i]) THEN FilterFrom(messages, i + 1)
    ELSE <<HistoryMessage(messages[i], i)>> \o FilterFrom(messages, i + 1)

_filter_user_visible_messages(messages) == FilterFrom(messages, 1)

\* graph.aget_state: a StateSnapshot, a named tuple; its values are empty for a
\* thread without a checkpoint.
StateSnapshot(store) ==
    [values |-> store, next |-> <<>>, config |-> "thread_id", metadata |-> None,
     created_at |-> None, parent_config |-> None, tasks |-> <<>>]

\* `not state` for a tuple: true of the empty tuple only
Not(state) == DOMAIN state = {}

HttpError(status, detail) == <<[status |-> status, detail |-> detail]>>

\* get_thread_history, given what aget_state does
get_thread_history(store, checkpointer_ok) ==
    IF ~checkpointer_ok THEN HttpError(500, "Failed to fetch thread history")
    ELSE LET state == StateSnapshot(store)
         IN  IF Not(state) THEN HttpError(404, "Thread not found")
             ELSE LET messages == IF state.values = <<>> THEN <<>> ELSE state.values[1]
                      history_messages == _filter_user_visible_messages(messages)
                  IN  <<[status |-> 200, messages |-> history_messages,
                         total_messages |-> Len(history_messages)]>>

histFrame ==
    <<turnVars, toolVars, streamVars, endpointVars, isoVars, raceVars, fanVars,
      clientVars, bindVars, delVars, jsonVars, liveVars, tmoVars, lcVars>>

GetThreadHistory ==
    /\ hist_response = <<>>
    /\ \E checkpointer_ok \in BOOLEAN :
         hist_response' = get_thread_history(hist_store, checkpointer_ok)
    /\ UNCHANGED hist_store
    /\ UNCHANGED histFrame

InitHistory ==
    /\ InitTurnIdle
    /\ InitLcIdle
    /\ InitTmoIdle
    /\ InitLiveIdle
    /\ InitJsonIdle
    /\ InitDelIdle
    /\ InitToolIdle
    /\ InitStreamIdle
    /\ InitEndpointIdle
    /\ InitIsoIdle
    /\ InitRaceIdle
    /\ InitFanIdle
    /\ InitClientIdle
    /\ InitBindIdle
    /\ hist_store \in {<<>>} \cup {<<m>> : m \in SeqsUpTo(StoredMessages, MaxHistory)}
    /\ hist_response = <<>>

NextHistory == GetThreadHistory

SpecHistory == InitHistory /\ [][NextHistory]_vars

\* The positions of the stored messages a user may see.
VisibleIndexes(messages) ==
    {i \in DOMAIN messages :
        \/ messages[i].type = "human"
        \/ messages[i].type = "ai" /\ messages[i].tool_calls = <<>>
                                   /\ messages[i].content # ""}

\* C27: history retrieval returns, in their original order, exactly the user
\* messages and the assistant messages without tool requests and with
\* non-empty content, and total_messages is the number of returned messages.
C27_HistoryIsTheVisibleMessagesInOrder ==
    (hist_response # <<>> /\ hist_response[1].status = 200 /\ hist_store # <<>>) =>
        LET stored == hist_store[1]
            got == hist_response[1].messages
        IN  /\ {got[k].index : k \in DOMAIN got} = VisibleIndexes(stored)
            /\ \A j, k \in DOMAIN got : j < k => got[j].index < got[k].index
            /\ \A k \in DOMAIN got :
                  /\ got[k].content = stored[got[k].index].content
                  /\ got[k].role = IF stored[got[k].index].type = "human"
                                   THEN "user" ELSE "assistant"
                  /\ got[k].type \notin {"tool", "system"}
            /\ hist_response[1].total_messages = Len(got)

\* A question, a tool decision, a tool result, an answer: the two ends are returned.
C27_Witness ==
    /\ hist_response # <<>>
    /\ hist_response[1].status = 200
    /\ hist_store # <<>>
    /\ Len(hist_store[1]) = 3
    /\ hist_store[1][1].type = "human"
    /\ hist_store[1][2].type = "ai" /\ hist_store[1][2].tool_calls # <<>>
    /\ hist_store[1][3].type = "ai" /\ hist_store[1][3].tool_calls = <<>>
                                    /\ hist_store[1][3].content = "text"
    /\ hist_response[1].total_messages = 2

\* C28: history retrieval for a thread that has no checkpoint is answered with
\* a 404 "Thread not found", not with an empty history.
C28_MissingThreadIs404 ==
    (hist_response # <<>> /\ hist_store = <<>>) =>
        \/ hist_response = HttpError(404, "Thread not found")
        \/ hist_response[1].status = 500

\* ================================================================== thread deletion
\* SpecDelete: the three checkpoint tables, holding rows of several threads,
\* and DELETE /threads/{thread_id}.

MaxRows == 2

DeleteThreads == {"t1", "t2"}

\* the tables, in the order delete_thread empties them
Tables == <<"checkpoint_writes", "checkpoint_blobs", "checkpoints">>

\* DELETE FROM <table> WHERE thread_id = %s: the rows left, counted per thread
DeleteFromAnyThread(rows, thread_id) == [t \in DOMAIN rows |-> 0]

DeleteFromOtherThreads(rows, thread_id) ==
    [t \in DOMAIN rows |-> IF t = thread_id THEN rows[t] ELSE 0]

DeleteFrom(rows, thread_id) == [rows EXCEPT ![thread_id] = 0]

\* cur.rowcount of that statement
RowCount(rows, thread_id) == rows[thread_id]

\* The statements run on a connection of a pool opened with autocommit, one
\* after the other; `fail_at` is the statement that raises (0: none, 1 also
\* stands for a pool that cannot be had).
delete_thread(db, thread_id, fail_at) ==
    LET ran == IF fail_at = 0 THEN Len(Tables) ELSE fail_at - 1
        after == [k \in DOMAIN Tables |->
                     IF k <= ran THEN DeleteFrom(db[k], thread_id) ELSE db[k]]
        deleted == [k \in 1..ran |-> RowCount(db[k], thread_id)]
    IN  [db |-> after,
         status |-> IF fail_at = 0 THEN 204 ELSE 500,
         deleted |-> deleted]

delFrame ==
    <<turnVars, toolVars, streamVars, endpointVars, isoVars, raceVars, fanVars,
      clientVars, bindVars, histVars, jsonVars, liveVars, tmoVars, lcVars>>

DeleteThread(thread_id) ==
    /\ \E fail_at \in 0..Len(Tables) :
         LET out == delete_thread(del_db, thread_id, fail_at)
         IN  /\ del_db' = out.db
             /\ del_response' = <<[thread_id |-> thread_id, status |-> out.status,
                                   deleted |-> out.deleted, before |-> del_db]>>
    /\ UNCHANGED delFrame

\* a turn of the thread writes a checkpoint: rows are added to the tables
WriteCheckpoint(thread_id) ==
    /\ \A k \in DOMAIN Tables : del_db[k][thread_id] < MaxRows
    /\ del_db' = [k \in DOMAIN Tables |-> [del_db[k] EXCEPT ![thread_id] = @ + 1]]
    /\ del_response' = <<>>
    /\ UNCHANGED delFrame

\* aget_tuple: the thread has a checkpoint to load
CanLoadCheckpoint(db, thread_id) == db[3][thread_id] > 0

InitDelete ==
    /\ InitTurnIdle
    /\ InitLcIdle
    /\ InitTmoIdle
    /\ InitLiveIdle
    /\ InitJsonIdle
    /\ InitToolIdle
    /\ InitStreamIdle
    /\ InitEndpointIdle
    /\ InitIsoIdle
    /\ InitRaceIdle
    /\ InitFanIdle
    /\ InitClientIdle
    /\ InitBindIdle
    /\ InitHistIdle
    /\ del_db \in [DOMAIN Tables -> [DeleteThreads -> 0..MaxRows]]
    /\ del_response = <<>>

NextDelete ==
    \E t \in DeleteThreads :
        \/ DeleteThread(t)
        \/ WriteCheckpoint(t)

SpecDelete == InitDelete /\ [][NextDelete]_vars

\* C29: a deletion that is answered 204 has removed every row of the three
\* tables whose thread_id is the given one and no other row, so no checkpoint
\* of the thread can be loaded; on a thread without rows it removes zero rows
\* and changes nothing, so deleting twice leaves what deleting once leaves.
C29_DeletionRemovesTheThreadOnly ==
    (del_response # <<>> /\ del_response[1].status = 204) =>
        LET r == del_response[1]
            t == r.thread_id
        IN  /\ \A k \in DOMAIN Tables :
                  /\ del_db[k][t] = 0
                  /\ r.deleted[k] = r.before[k][t]
                  /\ \A o \in DeleteThreads \ {t} : del_db[k][o] = r.before[k][o]
            /\ ~CanLoadCheckpoint(del_db, t)
            /\ (\A k \in DOMAIN Tables : r.before[k][t] = 0) =>
                  /\ del_db = r.before
                  /\ r.deleted = <<0, 0, 0>>
            /\ delete_thread(del_db, t, 0).db = del_db

\* A thread with rows in the three tables is deleted while another thread has
\* rows too.
C29_Witness ==
    /\ del_response # <<>>
    /\ del_response[1].status = 204
    /\ del_response[1].thread_id = "t1"
    /\ \A k \in DOMAIN Tables : del_response[1].deleted[k] > 0
    /\ del_db[3]["t2"] > 0

\* ---- C30
\* Something the streaming entrypoint depends on is missing.
DependencyMissing == ~ep_graph \/ ~ep_redis_url

\* C30: when the compiled graph is not initialized, or the Redis publisher
\* cannot be created because REDIS_URL is not configured, POST /stream is
\* answered 503, no background turn is scheduled or started, and so no event
\* is published.
C30_MissingDependencyIs503 ==
    (DependencyMissing /\ ep_pc \in {"responded", "closed"}) =>
        /\ ep_response[1].status_code = 503
        /\ ep_response[1].detail =
              IF ~ep_graph THEN "Graph is not ready yet" ELSE "REDIS_URL is not configured."
        /\ ep_tasks = 0
        /\ ep_ran = 0

\* REDIS_URL is not configured: the exchange is over, answered 503, nothing ran.
C30_Witness ==
    /\ ep_graph /\ ~ep_redis_url
    /\ ep_pc = "closed"
    /\ ep_response[1].status_code = 503
    /\ ep_ran = 0

\* ================================================================== StreamMessage.to_json
\* SpecJson: one StreamMessage and its serialization. Python values and JSON
\* values are kept apart, so that json.dumps followed by json.loads is a
\* conversion and not the identity.

MaxItems == 1          \* elements of a list or tuple inside data

\* ---- Python values
PyNone == [py |-> "None"]
PyStr(s) == [py |-> "str", s |-> s]
PyInt(n) == [py |-> "int", n |-> n]
\* an object json does not know; str_raises: its __str__ raises
PyObject(cls, str_raises) == [py |-> "object", cls |-> cls, str_raises |-> str_raises]
PyMessage(type, content) == [py |-> "BaseMessage", type |-> type, content |-> content]
PyList(items) == [py |-> "list", items |-> items]
PyTuple(items) == [py |-> "tuple", items |-> items]
\* a dict, as the sequence of its <<key, value>> items
PyDict(pairs) == [py |-> "dict", pairs |-> pairs]

\* ---- JSON values
JsNull == [js |-> "null"]
JsString(s) == [js |-> "string", s |-> s]
JsNumber(n) == [js |-> "number", n |-> n]
JsArray(items) == [js |-> "array", items |-> items]
JsObject(members) == [js |-> "object", members |-> members]

DumpsRaised(what) == [js |-> "raised", what |-> what]

\* str() of an int and of an object
IntText(n) == <<"0", "1", "2", "3", "4", "5", "6", "7", "8", "9">>[n + 1]

ObjectText(obj) == obj.cls

\* langchain's message_to_dict
message_to_dict(obj) ==
    PyDict(<< <<PyStr("type"), PyStr(obj.type)>>,
              <<PyStr("data"), PyDict(<< <<PyStr("content"), PyStr(obj.content)>> >>)>> >>)

\* _default inside to_json: what json.dumps is given for an object it does
\* not know; a message becomes a dict, anything else its str(), which may raise
_default(obj) ==
    IF obj.py = "BaseMessage" THEN message_to_dict(obj)
    ELSE IF obj.str_raises THEN DumpsRaised("__str__")
    ELSE PyStr(ObjectText(obj))

\* a dict key as json.dumps writes it: str as it is, int as its text, any
\* other key is a TypeError (the default hook is not asked about keys)
DumpsKey(key) ==
    IF key.py = "str" THEN key.s
    ELSE IF key.py = "int" THEN IntText(key.n)
    ELSE "TypeError"

KeyRaises(key) == key.py \notin {"str", "int"}

\* json.dumps(obj, default=_default): the JSON value, or DumpsRaised
RECURSIVE dumps(_)
dumps(obj) ==
    CASE obj.py = "None" -> JsNull
      [] obj.py = "str" -> JsString(obj.s)
      [] obj.py = "int" -> JsNumber(obj.n)
      [] obj.py \in {"list", "tuple"} ->
            LET items == [i \in DOMAIN obj.items |-> dumps(obj.items[i])]
            IN  IF \E i \in DOMAIN items : items[i].js = "raised"
                THEN DumpsRaised("item") ELSE JsArray(items)
      [] obj.py = "dict" ->
            LET members == [i \in DOMAIN obj.pairs |->
                               <<DumpsKey(obj.pairs[i][1]), dumps(obj.pairs[i][2])>>]
            IN  IF \E i \in DOMAIN obj.pairs : KeyRaises(obj.pairs[i][1])
                THEN DumpsRaised("keys must be str, int, float, bool or None")
                ELSE IF \E i \in DOMAIN members : members[i][2].js = "raised"
                THEN DumpsRaised("value") ELSE JsObject(members)
      [] OTHER ->
            LET replaced == _default(obj)
            IN  IF "js" \in DOMAIN replaced THEN replaced ELSE dumps(replaced)

\* json.loads
RECURSIVE loads(_)
loads(doc) ==
    CASE doc.js = "null" -> PyNone
      [] doc.js = "string" -> PyStr(doc.s)
      [] doc.js = "number" -> PyInt(doc.n)
      [] doc.js = "array" -> PyList([i \in DOMAIN doc.items |-> loads(doc.items[i])])
      [] doc.js = "object" ->
            PyDict([i \in DOMAIN doc.members |->
                       <<PyStr(doc.members[i][1]), loads(doc.members[i][2])>>])

\* StreamMessage: the dataclass fields
StreamMessage(thread_id, node_name, message_type, status, timestamp, data, execution_time_ms) ==
    [thread_id |-> thread_id, node_name |-> node_name, message_type |-> message_type,
     status |-> status, timestamp |-> timestamp, data |-> data,
     execution_time_ms |-> execution_time_ms]

\* to_json: json.dumps of the fields inside try; on any exception the
\* fallback document, stamped with the time of the failure
to_jsonNoFallback(msg, now) ==
    LET data == dumps(msg.data)
    IN  IF data.js = "raised" THEN [kind |-> "raised"]
        ELSE [kind |-> "json",
              doc |-> [thread_id |-> JsString(msg.thread_id),
                       node_name |-> JsString(msg.node_name),
                       message_type |-> JsString(msg.message_type),
                       status |-> JsString(msg.status),
                       timestamp |-> JsNumber(msg.timestamp),
                       data |-> data,
                       execution_time_ms |-> dumps(msg.execution_time_ms)]]

to_json(msg, now) ==
    LET data == dumps(msg.data)
    IN  IF data.js = "raised"
        THEN [kind |-> "fallback",
              doc |-> [thread_id |-> JsString(msg.thread_id),
                       node_name |-> JsString(msg.node_name),
                       message_type |-> JsString(msg.message_type),
                       status |-> JsString("error"),
                       error |-> JsString("Serialization failed"),
                       timestamp |-> JsNumber(now)]]
        ELSE [kind |-> "json",
              doc |-> [thread_id |-> JsString(msg.thread_id),
                       node_name |-> JsString(msg.node_name),
                       message_type |-> JsString(msg.message_type),
                       status |-> JsString(msg.status),
                       timestamp |-> JsNumber(msg.timestamp),
                       data |-> data,
                       execution_time_ms |-> dumps(msg.execution_time_ms)]]

\* the values data is drawn from: what _normalize_update leaves in a state
\* delta (messages as dicts, tuples as tuples, other objects untouched)
JsonLeaves ==
    {PyNone, PyStr("a"), PyInt(1), PyObject("Document", FALSE),
     PyObject("Unserializable", TRUE), PyMessage("ai", "hi")}

JsonKeys == {PyStr("k"), PyInt(1), PyTuple(<<>>)}

JsonData ==
    JsonLeaves
    \cup {PyList(s) : s \in SeqsUpTo(JsonLeaves, MaxItems)}
    \cup {PyTuple(s) : s \in SeqsUpTo(JsonLeaves, MaxItems)}
    \cup {PyDict(<< <<k, v>> >>) : k \in JsonKeys, v \in JsonLeaves}
    \cup {PyDict(<<>>)}

JsonTimes == 1..2

jsonFrame ==
    <<turnVars, toolVars, streamVars, endpointVars, isoVars, raceVars, fanVars,
      clientVars, bindVars, histVars, delVars, liveVars, tmoVars, lcVars>>

ToJsonCall ==
    /\ json_out = <<>>
    /\ \E now \in JsonTimes :
         /\ now >= json_msg.timestamp
         /\ json_out' = <<to_json(json_msg, now)>>
    /\ UNCHANGED json_msg
    /\ UNCHANGED jsonFrame

InitJson ==
    /\ InitTurnIdle
    /\ InitLcIdle
    /\ InitTmoIdle
    /\ InitLiveIdle
    /\ InitToolIdle
    /\ InitStreamIdle
    /\ InitEndpointIdle
    /\ InitIsoIdle
    /\ InitRaceIdle
    /\ InitFanIdle
    /\ InitClientIdle
    /\ InitBindIdle
    /\ InitHistIdle
    /\ InitDelIdle
    /\ json_msg \in {StreamMessage("t1", "generate", "output", status, 1, data, ms) :
                        status \in {"completed", "error"},
                        data \in JsonData,
                        ms \in {PyNone, PyInt(5)}}
    /\ json_out = <<>>

NextJson == ToJsonCall

SpecJson == InitJson /\ [][NextJson]_vars

\* data that json represents as it is: None, str, int, and lists and dicts
\* with str keys of such values
RECURSIVE JsonNative(_)
JsonNative(obj) ==
    CASE obj.py \in {"None", "str", "int"} -> TRUE
      [] obj.py = "list" -> \A i \in DOMAIN obj.items : JsonNative(obj.items[i])
      [] obj.py = "dict" -> \A i \in DOMAIN obj.pairs :
                               /\ obj.pairs[i][1].py = "str"
                               /\ JsonNative(obj.pairs[i][2])
      [] OTHER -> FALSE

\* the fields of a parsed document that the message has too
SameEnvelope(doc, msg) ==
    /\ loads(doc.thread_id) = PyStr(msg.thread_id)
    /\ loads(doc.node_name) = PyStr(msg.node_name)
    /\ loads(doc.message_type) = PyStr(msg.message_type)

IsFallback(out, msg) ==
    /\ out.kind = "fallback"
    /\ SameEnvelope(out.doc, msg)
    /\ loads(out.doc.status) = PyStr("error")
    /\ "error" \in DOMAIN out.doc
    /\ loads(out.doc.error).s # ""

\* C31 as stated: to_json never raises; data that cannot be serialized gives
\* the fallback document with thread_id, node_name, status "error" and an
\* error text; any other data gives a document that parses back to the same
\* thread_id, node_name, message_type, status, timestamp, data and
\* execution_time_ms.
C31_SerializableDataRoundTrips ==
    json_out # <<>> =>
        LET out == json_out[1]
        IN  /\ out.kind # "raised"
            /\ IF dumps(json_msg.data).js = "raised"
               THEN IsFallback(out, json_msg)
               ELSE /\ out.kind = "json"
                    /\ SameEnvelope(out.doc, json_msg)
                    /\ loads(out.doc.status) = PyStr(json_msg.status)
                    /\ loads(out.doc.timestamp) = PyInt(json_msg.timestamp)
                    /\ loads(out.doc.execution_time_ms) = json_msg.execution_time_ms
                    /\ loads(out.doc.data) = json_msg.data

\* C31 (amended): to_json never raises; when json.dumps with the _default hook
\* raises, it gives the fallback document; otherwise the document parses back
\* to the same thread_id, node_name, message_type, status, timestamp and
\* execution_time_ms, and to the same data exactly when data is made of what
\* JSON has itself; a tuple comes back as a list, a non-str key as its text, a
\* message as its dict and any other object as its str().
C31_NeverRaisesAndNativeDataRoundTrips ==
    json_out # <<>> =>
        LET out == json_out[1]
        IN  /\ out.kind # "raised"
            /\ IF dumps(json_msg.data).js = "raised"
               THEN IsFallback(out, json_msg)
               ELSE /\ out.kind = "json"
                    /\ SameEnvelope(out.doc, json_msg)
                    /\ loads(out.doc.status) = PyStr(json_msg.status)
                    /\ loads(out.doc.timestamp) = PyInt(json_msg.timestamp)
                    /\ loads(out.doc.execution_time_ms) = json_msg.execution_time_ms
                    /\ JsonNative(loads(out.doc.data))
                    /\ (loads(out.doc.data) = json_msg.data) <=> JsonNative(json_msg.data)

\* a message whose data holds an object whose __str__ raises was serialized
C31_Witness ==
    /\ json_out # <<>>
    /\ json_out[1].kind = "fallback"
    /\ json_msg.data = PyList(<<PyObject("Unserializable", TRUE)>>)
    /\ json_msg.execution_time_ms = PyNone

\* ================================================================== live delivery and send failures
\* SpecLive: _stream_new_messages, one subscriber, with a client that can go
\* away. Entries reach the log by the append the unit tests describe.

liveFrame ==
    <<turnVars, toolVars, streamVars, endpointVars, isoVars, raceVars, fanVars,
      clientVars, bindVars, histVars, delVars, jsonVars, tmoVars, lcVars>>

\* XADD by the publisher
LiveAppend ==
    /\ Len(live_log) < MaxEvents
    /\ live_log' = Append(live_log, [id |-> Len(live_log) + 1, ev |-> Len(live_log) + 1])
    /\ UNCHANGED <<live_last_id, live_pc, live_client, live_sent, live_failed, live_offset>>
    /\ UNCHANGED liveFrame

\* the client closes the connection; nothing is raised in the handler, which
\* is waiting in XREAD or in sleep
LiveClientGone ==
    /\ live_client = "open"
    /\ live_client' = "gone"
    /\ UNCHANGED <<live_log, live_last_id, live_pc, live_sent, live_failed, live_offset>>
    /\ UNCHANGED liveFrame

\* One round of the while loop: XREAD after last_id; for every message of the
\* batch last_id is set to its id and then it is sent. `n` sends succeed; the
\* next one raises because the client is gone (it may go away during the
\* batch). The exception is caught by `except Exception`, logged, the loop
\* sleeps one second and goes round again.
LiveRound ==
    /\ live_pc = "reading"
    /\ LET messages == XRead(live_log, live_last_id, XReadCount)
       IN  \E n \in 0..Len(messages) :
             /\ live_client = "gone" => n = 0
             /\ live_sent' = live_sent \o [k \in 1..n |-> messages[k].id]
             /\ IF n = Len(messages)
                THEN /\ live_last_id' = IF n = 0 THEN live_last_id ELSE messages[n].id
                     /\ UNCHANGED <<live_client, live_failed>>
                ELSE /\ live_last_id' = messages[n + 1].id
                     /\ live_client' = "gone"
                     /\ live_failed' = TRUE
    /\ live_pc' = "reading"
    /\ UNCHANGED <<live_log, live_offset>>
    /\ UNCHANGED liveFrame

\* the handler's task is cancelled (the server shuts down): CancelledError at
\* the await, `break`, and websocket_stream returns
LiveCancel ==
    /\ live_pc = "reading"
    /\ live_pc' = "returned"
    /\ UNCHANGED <<live_log, live_last_id, live_client, live_sent, live_failed, live_offset>>
    /\ UNCHANGED liveFrame

InitLive ==
    /\ InitTurnIdle
    /\ InitLcIdle
    /\ InitTmoIdle
    /\ InitToolIdle
    /\ InitStreamIdle
    /\ InitEndpointIdle
    /\ InitIsoIdle
    /\ InitRaceIdle
    /\ InitFanIdle
    /\ InitClientIdle
    /\ InitBindIdle
    /\ InitHistIdle
    /\ InitDelIdle
    /\ InitJsonIdle
    /\ live_log = <<>>
    /\ live_offset \in 0..1
    /\ live_last_id = live_offset
    /\ live_pc = "reading"
    /\ live_client = "open"
    /\ live_sent = <<>>
    /\ live_failed = FALSE

NextLive ==
    \/ LiveAppend
    \/ LiveClientGone
    \/ LiveRound
    \/ LiveCancel

SpecLive == InitLive /\ [][NextLive]_vars

\* C32: once a send to the websocket has failed because the client is gone,
\* _stream_new_messages has stopped reading the log and websocket_stream has
\* returned; it does not go on polling.
C32_HandlerReturnsAfterClientGone ==
    live_failed => live_pc = "returned"

\* C33: the read position is past an event of the log only when that event
\* has been sent: no event after the position the delivery started from and
\* at or before last_id is missing from what was sent.
C33_PositionOnlyPassesSentEvents ==
    \A k \in DOMAIN live_log :
        (live_offset < live_log[k].id /\ live_log[k].id <= live_last_id)
            => live_log[k].id \in Range(live_sent)

\* ================================================================== the turn's time budget
\* SpecBudget: one turn under asyncio.wait_for, with its clock. An exception
\* reaches the driver's except clauses either from wait_for itself, when the
\* budget has elapsed, or from a model or tool call inside the workflow.

tmoFrame ==
    <<turnVars, toolVars, streamVars, endpointVars, isoVars, raceVars, fanVars,
      clientVars, bindVars, histVars, delVars, jsonVars, liveVars, lcVars>>

\* what a model or tool call can raise: any exception, among them a
\* TimeoutError of its own (a connect or read timeout, an inner wait_for)
CallExceptions ==
    {Exc("Exception", "model call failed"), Exc("TimeoutError", "Request timed out")}

\* a second passes while the workflow runs
TmoTick ==
    /\ tmo_pc = "running"
    /\ tmo_elapsed < workflow_timeout_seconds
    /\ tmo_elapsed' = tmo_elapsed + 1
    /\ UNCHANGED <<tmo_pc, tmo_raised, tmo_events>>
    /\ UNCHANGED tmoFrame

\* asyncio.wait_for(_process_stream(), timeout=timeout_seconds) gives up
TmoWaitForExpires ==
    /\ tmo_pc = "running"
    /\ tmo_elapsed = workflow_timeout_seconds
    /\ tmo_raised' = "wait_for"
    /\ tmo_events' = OnException(Exc("TimeoutError", ""))
    /\ tmo_pc' = "failed"
    /\ UNCHANGED tmo_elapsed
    /\ UNCHANGED tmoFrame

\* a model or tool call raises and the exception leaves graph.astream
TmoCallRaises ==
    /\ tmo_pc = "running"
    /\ tmo_elapsed < workflow_timeout_seconds
    /\ \E e \in CallExceptions :
         /\ tmo_events' = OnException(e)
    /\ tmo_raised' = "call"
    /\ tmo_pc' = "failed"
    /\ UNCHANGED tmo_elapsed
    /\ UNCHANGED tmoFrame

\* the stream is exhausted in time: publish_workflow_complete
TmoComplete ==
    /\ tmo_pc = "running"
    /\ tmo_elapsed < workflow_timeout_seconds
    /\ tmo_events' = <<Event("workflow", "complete", "")>>
    /\ tmo_pc' = "done"
    /\ UNCHANGED <<tmo_elapsed, tmo_raised>>
    /\ UNCHANGED tmoFrame

InitBudget ==
    /\ InitTurnIdle
    /\ InitLcIdle
    /\ InitToolIdle
    /\ InitStreamIdle
    /\ InitEndpointIdle
    /\ InitIsoIdle
    /\ InitRaceIdle
    /\ InitFanIdle
    /\ InitClientIdle
    /\ InitBindIdle
    /\ InitHistIdle
    /\ InitDelIdle
    /\ InitJsonIdle
    /\ InitLiveIdle
    /\ tmo_pc = "running"
    /\ tmo_elapsed = 0
    /\ tmo_raised = None
    /\ tmo_events = <<>>

NextBudget ==
    \/ TmoTick
    \/ TmoWaitForExpires
    \/ TmoCallRaises
    \/ TmoComplete

SpecBudget == InitBudget /\ [][NextBudget]_vars

\* C34: an error event with error_type timeout is published only when the
\* turn has run for workflow_timeout_seconds; an exception raised inside a
\* model or tool call before that, a timeout exception included, is reported
\* as execution_error.
C34_TimeoutOnlyWhenBudgetElapsed ==
    \A k \in DOMAIN tmo_events :
        (tmo_events[k].type = "error" /\ tmo_events[k].error_type = "timeout")
            => /\ tmo_elapsed >= workflow_timeout_seconds
               /\ tmo_raised = "wait_for"

\* C35: the tools bound in query_or_respond are the tools the tools node was
\* built with, whatever project_search_enabled is (both lists are built from
\* the one cached Settings object), so a request that names a bound tool
\* names a tool the tools node holds and runs.
C35_BoundToolsAreTheRegisteredTools ==
    /\ \A enabled \in BOOLEAN : BoundTools(enabled) = ToolNodeTools(enabled)
    /\ bind_pc # "decide" => bind_bound = ToolNodeTools(bind_settings)
    /\ bind_pc = "done" =>
          Range(bind_requested) \cap bind_bound \subseteq bind_executed

\* with project search enabled the model asked for search_projects and the
\* tools node ran it
C35_Witness ==
    /\ bind_pc = "done"
    /\ bind_settings
    /\ bind_requested = <<"search_projects", "retrieve_context">>
    /\ bind_executed = {"retrieve_context", "search_projects"}

\* ================================================================== failed and foreign deletions

\* C36: thread deletion is all-or-nothing across the three tables: a deletion
\* answered with 500 has removed no row of the thread.
C36_FailedDeletionRemovesNothing ==
    (del_response # <<>> /\ del_response[1].status = 500) =>
        del_db = del_response[1].before

\* C37: deleting thread T, whether it is answered 204 or 500, leaves the rows
\* of every other thread in the three tables as they were, so a turn on
\* another thread finds the checkpoint it found before.
C37_DeletionLeavesOtherThreadsAlone ==
    del_response # <<>> =>
        LET r == del_response[1]
        IN  \A o \in DeleteThreads \ {r.thread_id} :
              /\ \A k \in DOMAIN Tables : del_db[k][o] = r.before[k][o]
              /\ CanLoadCheckpoint(del_db, o) = CanLoadCheckpoint(r.before, o)
              /\ \A fail_at \in 0..Len(Tables) :
                    \A k \in DOMAIN Tables :
                       delete_thread(del_db, r.thread_id, fail_at).db[k][o] = del_db[k][o]

\* thread t1 was deleted while t2 had a checkpoint and rows in all three
\* tables; t2 still has them
C37_Witness ==
    /\ del_response # <<>>
    /\ del_response[1].thread_id = "t1"
    /\ del_response[1].before[3]["t1"] > 0
    /\ del_db[3]["t1"] = 0
    /\ \A k \in DOMAIN Tables : del_db[k]["t2"] = MaxRows
    /\ CanLoadCheckpoint(del_db, "t2")

\* ================================================================== pool and checkpointer lifecycle
\* SpecLifecycle: DatabaseManager and CheckpointerManager, two class-level
\* singletons, as the application's lifespan and the thread deletion call
\* them. The lifespan may be entered again after it ended or failed.

MaxStarts == 6         \* lifespans entered in one process

lcFrame ==
    <<turnVars, toolVars, streamVars, endpointVars, isoVars, raceVars, fanVars,
      clientVars, bindVars, histVars, delVars, jsonVars, liveVars, tmoVars>>

\* The two class attributes and the pools constructed so far.
Managers(pool, checkpointer, pools) ==
    [pool |-> pool, checkpointer |-> checkpointer, pools |-> pools]

Done(m) == [m |-> m, raised |-> "none"]

Failed(m, what) == [m |-> m, raised |-> what]

\* DatabaseManager.initialize: nothing when a pool is held; else the pool is
\* constructed and stored, then opened; when the opening raises the pool
\* stays stored.
DatabaseInitialize(m, open_ok) ==
    IF m.pool # 0 THEN Done(m)
    ELSE LET made == Managers(Len(m.pools) + 1, m.checkpointer,
                              Append(m.pools, IF open_ok THEN "open" ELSE "unopened"))
         IN  IF open_ok THEN Done(made) ELSE Failed(made, "Exception")

\* DatabaseManager.get_pool: initializes when no pool is held
get_pool(m, open_ok) ==
    IF m.pool = 0 THEN DatabaseInitialize(m, open_ok) ELSE Done(m)

\* DatabaseManager.close
DatabaseClose(m) ==
    IF m.pool # 0
    THEN Managers(0, m.checkpointer, [m.pools EXCEPT ![m.pool] = "closed"])
    ELSE m

\* CheckpointerManager.initialize: nothing when a checkpointer is held; else
\* the pool is initialized and fetched, a saver is built on it and set up
\* (which needs an open pool and a database that answers), then stored.
CheckpointerInitialize(m, open_ok, setup_ok) ==
    IF m.checkpointer # <<>> THEN Done(m)
    ELSE LET first == DatabaseInitialize(m, open_ok)
             second == get_pool(first.m, open_ok)
             with_pool == second.m
         IN  IF first.raised # "none" THEN first
             ELSE IF second.raised # "none" THEN second
             ELSE IF setup_ok /\ with_pool.pools[with_pool.pool] = "open"
                  THEN Done(Managers(with_pool.pool, <<with_pool.pool>>, with_pool.pools))
                  ELSE Failed(with_pool, "Exception")

\* CheckpointerManager.get_checkpointer
get_checkpointer(m) ==
    IF m.checkpointer = <<>> THEN [raised |-> "RuntimeError", value |-> <<>>]
    ELSE [raised |-> "none", value |-> m.checkpointer]

\* CheckpointerManager.close
CheckpointerCloseWithoutClear(m) == m

CheckpointerClose(m) ==
    IF m.checkpointer # <<>> THEN Managers(m.pool, <<>>, m.pools) ELSE m

Current == Managers(lc_pool, lc_checkpointer, lc_pools)

SetManagers(m) ==
    /\ lc_pool' = m.pool
    /\ lc_checkpointer' = m.checkpointer
    /\ lc_pools' = m.pools

\* lifespan, entered: await DatabaseManager.initialize(); an exception ends
\* the lifespan before its try block
LifespanDatabaseInitialize ==
    /\ lc_pc = "stopped"
    /\ lc_starts < MaxStarts
    /\ lc_starts' = lc_starts + 1
    /\ \E open_ok \in BOOLEAN :
         LET out == DatabaseInitialize(Current, open_ok)
         IN  /\ SetManagers(out.m)
             /\ lc_pc' = IF out.raised = "none" THEN "checkpointer" ELSE "stopped"
    /\ lc_result' = <<>>
    /\ UNCHANGED lcFrame

\* await CheckpointerManager.initialize()
LifespanCheckpointerInitialize ==
    /\ lc_pc = "checkpointer"
    /\ \E open_ok \in BOOLEAN, setup_ok \in BOOLEAN :
         LET out == CheckpointerInitialize(Current, open_ok, setup_ok)
         IN  /\ SetManagers(out.m)
             /\ lc_pc' = IF out.raised = "none" THEN "graph" ELSE "stopped"
    /\ UNCHANGED <<lc_starts, lc_result>>
    /\ UNCHANGED lcFrame

\* checkpointer = CheckpointerManager.get_checkpointer(); build_graph; yield
LifespanBuildGraph ==
    /\ lc_pc = "graph"
    /\ lc_result' = <<get_checkpointer(Current)>>
    /\ lc_pc' = IF lc_result'[1].raised = "none" THEN "serving" ELSE "stopped"
    /\ UNCHANGED <<lc_pool, lc_checkpointer, lc_pools, lc_starts>>
    /\ UNCHANGED lcFrame

\* delete_thread while the application serves: DatabaseManager.get_pool()
ServeGetPool ==
    /\ lc_pc = "serving"
    /\ \E open_ok \in BOOLEAN :
         LET out == get_pool(Current, open_ok)
         IN  /\ SetManagers(out.m)
             /\ lc_result' = <<[raised |-> out.raised, value |-> <<out.m.pool>>]>>
    /\ UNCHANGED <<lc_pc, lc_starts>>
    /\ UNCHANGED lcFrame

\* the lifespan ends: finally, await CheckpointerManager.close()
LifespanCheckpointerClose ==
    /\ lc_pc = "serving"
    /\ SetManagers(CheckpointerClose(Current))
    /\ lc_pc' = "closing"
    /\ lc_result' = <<>>
    /\ UNCHANGED lc_starts
    /\ UNCHANGED lcFrame

\* then await DatabaseManager.close()
LifespanDatabaseClose ==
    /\ lc_pc = "closing"
    /\ SetManagers(DatabaseClose(Current))
    /\ lc_pc' = "stopped"
    /\ UNCHANGED <<lc_starts, lc_result>>
    /\ UNCHANGED lcFrame

InitLifecycle ==
    /\ InitTurnIdle
    /\ InitToolIdle
    /\ InitStreamIdle
    /\ InitEndpointIdle
    /\ InitIsoIdle
    /\ InitRaceIdle
    /\ InitFanIdle
    /\ InitClientIdle
    /\ InitBindIdle
    /\ InitHistIdle
    /\ InitDelIdle
    /\ InitJsonIdle
    /\ InitLiveIdle
    /\ InitTmoIdle
    /\ lc_pc = "stopped"
    /\ lc_pool = 0
    /\ lc_checkpointer = <<>>
    /\ lc_pools = <<>>
    /\ lc_starts = 0
    /\ lc_result = <<>>

NextLifecycle ==
    \/ LifespanDatabaseInitialize
    \/ LifespanCheckpointerInitialize
    \/ LifespanBuildGraph
    \/ ServeGetPool
    \/ LifespanCheckpointerClose
    \/ LifespanDatabaseClose

SpecLifecycle == InitLifecycle /\ [][NextLifecycle]_vars

\* pools that were constructed and not closed
LivePools == {p \in DOMAIN lc_pools : lc_pools[p] # "closed"}

====
